---- MODULE Spec2Model ----
(***************************************************************************)
(* Model of migrate-barrel-imports: the export scan of a source package    *)
(* (findExports), the rewrite of one consumer file (updateImports) and the *)
(* orchestrating run (migrateBarrelImports).                               *)
(*                                                                         *)
(* Two implementations of the engine are modelled:                         *)
(*   - src/src/migrate-barrel-imports.ts   (operators without suffix,      *)
(*     specification Spec);                                                *)
(*   - src/unnamed/part_001                (operators with suffix _p1,     *)
(*     specification SpecP1), the variant that tracks external re-exports, *)
(*     default-exported entities and all files exporting a name.           *)
(*                                                                         *)
(* Further specifications of src/src/migrate-barrel-imports.ts:            *)
(*   - SpecTree, SpecTreeFair: a run over several packages and a target    *)
(*     tree of several files, with failures of every step;                 *)
(*   - SpecNested: the same run when the source packages lie inside the    *)
(*     target directory;                                                   *)
(*   - SpecScan, SpecScanFair: a run in which findExports is followed one  *)
(*     loop iteration at a time;                                           *)
(* and of src/src/cli.ts: SpecCli, main() from the command line to the     *)
(* call of migrateBarrelImports.                                           *)
(*                                                                         *)
(* Strings (specifiers, file paths) are sequences of tokens, so that ===,  *)
(* startsWith, includes, replace and template concatenation are computed.  *)
(* Every string of the model has exactly one tokenisation, so equality of  *)
(* token sequences is equality of the strings.                             *)
(***************************************************************************)
EXTENDS Integers, Sequences, FiniteSets, TLC

VARIABLES
    modules,          \* the source package on disk: its modules, in the order fast-glob lists them
    packageJsonOk,    \* whether the package's package.json can be read and parsed
    ignoreSourceFiles,\* options.ignoreSourceFiles
    includeExtension, \* options.includeExtension
    content,          \* on-disk content of the consumer file
    original,         \* the consumer file's content before the first run (history)
    pc,               \* position of migrateBarrelImports
    run,              \* number of runs of migrateBarrelImports started so far
    exports,          \* ExportInfo[] returned by findExports in the current run
    files,            \* result of findImports in the current run
    last,             \* what the last updateImports call did (history)
    atRunStart,       \* the consumer file's content when the current run started (history)
    stats,            \* MigrationStats of the current run
    sourceDirs,       \* the directories options.sourcePath matches, in fast-glob's order
    tree,             \* the files under options.targetPath with their on-disk content
    treeAtStart,      \* the target tree before the run (history)
    ignoreTargetFiles,\* options.ignoreTargetFiles
    packageJsonPaths, \* the package directories still to be processed by the package loop
    packageInfo,      \* getPackageInfo's result for the package being processed
    log,              \* the iterations of the package loop and the file loop so far (history)
    argv,             \* process.argv after the node binary and the script: the command line
    cli,              \* main() of cli.ts: its position, what commander parsed, the calls made
    toScan,           \* findExports seen one file at a time: the files its loop has not reached
    scanned           \* the files the loop of findExports has visited, in order (history)

\* the state of a run over several packages and a target tree of several files
treeVars == <<sourceDirs, tree, treeAtStart, ignoreTargetFiles, packageJsonPaths,
              packageInfo, log>>

\* the state of the command line interface
cliVars == <<argv, cli>>

\* the state of a findExports that is followed through its loop
scanVars == <<toScan, scanned>>

\* the state of a run over one package and one consumer file
packageVars == <<modules, packageJsonOk, content, original, last, atRunStart>>

vars == <<modules, packageJsonOk, ignoreSourceFiles, includeExtension, content,
          original, pc, run, exports, files, last, atRunStart, stats, treeVars, cliVars,
          scanVars>>

----------------------------------------------------------------------------
(* Bounds of the model *)

\* most modules in the source package
MaxModules == 2
\* most import declarations in the consumer file
MaxImports == 2
\* most runs of migrateBarrelImports on the same tree
MaxRuns == 2
\* most source packages in a run over a target tree
MaxPackages == 2
\* most files in the target tree
MaxFiles == 2
\* most arguments on the command line
MaxArgs == 5

----------------------------------------------------------------------------
(* Strings as token sequences *)

\* tokens that begin with the character '.'
DotTokens == {".ts", ".tsx", ".js", ".jsx", ".stories", ".test", ".spec", "./", "../"}

\* tokens that begin with the character '/'
SlashTokens == {"/"}

\* String.prototype.startsWith
StartsWith(s, p) == Len(p) <= Len(s) /\ SubSeq(s, 1, Len(p)) = p

\* s.startsWith('.')
StartsWithDot(s) == Len(s) > 0 /\ s[1] \in DotTokens

\* s.includes('node_modules')
IncludesNodeModules(s) == \E i \in 1..Len(s) : s[i] = "node_modules"

\* s.includes(t + '.') for a token t such as ".stories"
IncludesThenDot(s, t) == \E i \in 1..(Len(s) - 1) : s[i] = t /\ s[i + 1] \in DotTokens

\* s.includes(t + '/') for a token t such as ".stories"
IncludesThenSlash(s, t) == \E i \in 1..(Len(s) - 1) : s[i] = t /\ s[i + 1] \in SlashTokens

\* s.replace(/\.(js|jsx|ts|tsx|mjs|cjs)$/, '')
ReplaceKnownExtension(s) ==
    IF Len(s) > 0 /\ s[Len(s)] \in {".js", ".jsx", ".ts", ".tsx", ".mjs", ".cjs"}
    THEN SubSeq(s, 1, Len(s) - 1)
    ELSE s

\* s.replace(/\.[^/.]+$/, ''): a final '.' followed by characters other than '/' and '.'
ReplaceLastExtension(s) ==
    IF Len(s) > 0 /\ s[Len(s)] \in {".ts", ".tsx", ".js", ".jsx", ".stories", ".test", ".spec"}
    THEN SubSeq(s, 1, Len(s) - 1)
    ELSE s

\* the elements of a sequence
Range(s) == {s[i] : i \in 1..Len(s)}

\* Array.prototype.includes
Contains(s, x) == \E i \in 1..Len(s) : s[i] = x

----------------------------------------------------------------------------
(* Syntax trees of source modules (the export statements are what the scan reads) *)

NoSource == <<>>
NoDeclaration == [kind |-> "none", ids |-> <<>>]

\* export const a = ..., b = ...   /  export function f / enum / interface / type / class
ExportDecl(kind, ids) ==
    [type |-> "ExportNamedDeclaration", source |-> NoSource,
     declaration |-> [kind |-> kind, ids |-> ids], specifiers |-> <<>>]

\* export { n1, n2 }  (source = NoSource)   /   export { n1 } from "source"
ExportSpecifiers(names, source) ==
    [type |-> "ExportNamedDeclaration", source |-> source,
     declaration |-> NoDeclaration,
     specifiers |-> [i \in 1..Len(names) |-> [type |-> "ExportSpecifier", exported |-> names[i]]]]

\* export * from "source"
ExportAll(source) ==
    [type |-> "ExportAllDeclaration", source |-> source,
     declaration |-> NoDeclaration, specifiers |-> <<>>]

\* export default <identifier | function f | class C | expression>
ExportDefault(kind, ids) ==
    [type |-> "ExportDefaultDeclaration", source |-> NoSource,
     declaration |-> [kind |-> kind, ids |-> ids], specifiers |-> <<>>]

\* getExportNames: the names a declaration node binds
getExportNames(declaration) ==
    IF declaration.kind = "none" THEN <<>>
    ELSE IF declaration.kind \in {"VariableDeclaration", "FunctionDeclaration",
                                  "TSEnumDeclaration", "TSInterfaceDeclaration",
                                  "TSTypeAliasDeclaration", "ClassDeclaration"}
    THEN declaration.ids
    ELSE <<>>

\* micromatch.isMatch(file, pattern) for the patterns of the model
isMatch(file, pattern) ==
    CASE pattern = "**/*.stories.*" -> IncludesThenDot(file, ".stories")
      [] pattern = "**/b.*" -> Len(file) >= 2 /\ file[Len(file) - 1] = "b"
      [] OTHER -> FALSE

\* ignoreSourceFiles.some((pattern) => micromatch.isMatch(file, pattern))
IsIgnoredSource(file, patterns) == \E i \in 1..Len(patterns) : isMatch(file, patterns[i])

----------------------------------------------------------------------------
(* findExports of src/src/migrate-barrel-imports.ts *)

ExportEntry(file, names, isIgnored) ==
    [source |-> file, exports |-> names, isIgnored |-> isIgnored]

\* names of the export specifiers of a node (other specifier kinds map to null and are filtered)
SpecifierNames(specifiers) ==
    LET F[i \in 0..Len(specifiers)] ==
          IF i = 0 THEN <<>>
          ELSE IF specifiers[i].type = "ExportSpecifier"
               THEN Append(F[i - 1], specifiers[i].exported)
               ELSE F[i - 1]
    IN F[Len(specifiers)]

\* the ExportNamedDeclaration visitor: the entries it pushes
ExportNamedDeclaration(node, file, isIgnored) ==
    IF node.source # NoSource
       /\ (IncludesNodeModules(node.source) \/ ~StartsWithDot(node.source))
    THEN <<>>
    ELSE LET declNames == getExportNames(node.declaration)
             specNames == SpecifierNames(node.specifiers)
         IN (IF node.declaration.kind # "none" /\ Len(declNames) > 0
             THEN <<ExportEntry(file, declNames, isIgnored)>> ELSE <<>>)
            \o
            (IF Len(specNames) > 0
             THEN <<ExportEntry(file, specNames, isIgnored)>> ELSE <<>>)

\* the ExportDefaultDeclaration visitor: the entries it pushes
ExportDefaultDeclaration(node, file, isIgnored) ==
    IF node.declaration.kind = "Identifier"
       \/ (node.declaration.kind = "FunctionDeclaration" /\ Len(node.declaration.ids) > 0)
    THEN <<ExportEntry(file, <<node.declaration.ids[1]>>, isIgnored)>>
    ELSE <<>>

\* the entries one module contributes: parse, then traverse its statements in order
ScanModule(m, patterns) ==
    LET isIgnored == IsIgnoredSource(m.file, patterns)
        F[i \in 0..Len(m.body)] ==
          IF i = 0 THEN <<>>
          ELSE F[i - 1] \o
               (CASE m.body[i].type = "ExportNamedDeclaration" ->
                       ExportNamedDeclaration(m.body[i], m.file, isIgnored)
                  [] m.body[i].type = "ExportDefaultDeclaration" ->
                       ExportDefaultDeclaration(m.body[i], m.file, isIgnored)
                  [] OTHER -> <<>>)
    IN IF m.parses THEN F[Len(m.body)] ELSE <<>>

\* a scan with the try around the loop: it ends at the first file that does not parse
findExports_StopsAtFailure(allFiles, patterns) ==
    LET F[i \in 0..Len(allFiles)] ==
          IF i = 0 THEN <<>>
          ELSE IF \E k \in 1..i : ~allFiles[k].parses THEN F[i - 1]
          ELSE F[i - 1] \o ScanModule(allFiles[i], patterns)
    IN F[Len(allFiles)]

\* findExports: allFiles is the package's modules in the order fast-glob returned them
findExports(allFiles, patterns) ==
    LET F[i \in 0..Len(allFiles)] ==
          IF i = 0 THEN <<>> ELSE F[i - 1] \o ScanModule(allFiles[i], patterns)
    IN F[Len(allFiles)]

----------------------------------------------------------------------------
(* Syntax trees of consumer files *)

\* import { imported as local }
ImportSpecifier(local, imported) ==
    [type |-> "ImportSpecifier", local |-> local, imported |-> imported]

\* import local from ...
ImportDefaultSpecifier(local) ==
    [type |-> "ImportDefaultSpecifier", local |-> local, imported |-> "default"]

\* import * as local from ...
ImportNamespaceSpecifier(local) ==
    [type |-> "ImportNamespaceSpecifier", local |-> local, imported |-> "*"]

\* importDeclaration(specifiers, stringLiteral(source))
importDeclaration(specifiers, source) ==
    [type |-> "ImportDeclaration", source |-> source, specifiers |-> specifiers]

\* any statement that is not an import declaration
OtherStatement ==
    [type |-> "Statement", source |-> NoSource, specifiers |-> <<>>]

\* text of a file: how it is formatted and the statements it holds.  "src" is text as
\* its author wrote it, "gen" is text printed by generate(), "bad" is text parse() rejects.
Text(fmt, body) == [fmt |-> fmt, body |-> body]

\* parse(content, BABEL_CONFIG) throws on text that is not a module
ParseThrows(text) == text.fmt = "bad"

\* a printer that keeps the import declarations alone
generate_ImportsOnly(ast) ==
    LET IsImport(node) == node.type = "ImportDeclaration"
    IN Text("gen", SelectSeq(ast, IsImport))

\* generate(ast, {retainLines, retainFunctionParens}, content).code
generate(ast) == Text("gen", ast)

----------------------------------------------------------------------------
(* updateImports of src/src/migrate-barrel-imports.ts *)

\* `${packageName}/${source}`
DirectPath(packageName, source) == packageName \o <<"/">> \o source

\* exports.find((e) => e.exports.includes(importName)): index of the entry, 0 if none
FindExportInfo(exportInfos, importName) ==
    LET hits == {i \in 1..Len(exportInfos) : Contains(exportInfos[i].exports, importName)}
    IN IF hits = {} THEN 0 ELSE CHOOSE i \in hits : \A j \in hits : i <= j

\* exports.some((e) => e.source.includes('node_modules') || !e.source.startsWith('.'))
IsReExport(exportInfos) ==
    \E i \in 1..Len(exportInfos) :
        IncludesNodeModules(exportInfos[i].source) \/ ~StartsWithDot(exportInfos[i].source)

\* importsBySource: a Map in insertion order, here a sequence of [path, specs]
MapPush(map, path, spec) ==
    IF \E i \in 1..Len(map) : map[i].path = path
    THEN [i \in 1..Len(map) |->
            IF map[i].path = path
            THEN [path |-> path, specs |-> Append(map[i].specs, spec)]
            ELSE map[i]]
    ELSE Append(map, [path |-> path, specs |-> <<spec>>])

\* the warning strings pushed to warnings
ReExportWarning(importName, filePath) ==
    [text |-> "Skipping re-export from external package", name |-> importName, file |-> filePath]

NotFoundWarning(importName, filePath) ==
    [text |-> "Could not find export", name |-> importName, file |-> filePath]

\* an import path that loses its extension whatever includeExtension says
ImportPath_AlwaysStripped(packageName, source, inclExt) ==
    DirectPath(packageName, ReplaceKnownExtension(source))

\* `${packageName}/${exportInfo.source}`, the extension replaced unless includeExtension
ImportPath(packageName, source, inclExt) ==
    IF inclExt
    THEN DirectPath(packageName, source)
    ELSE DirectPath(packageName, ReplaceKnownExtension(source))

\* the plan of an import declaration before its first specifier
EmptyPlan ==
    [importsBySource |-> <<>>, remainingSpecifiers |-> <<>>,
     warnings |-> <<>>, hasDirectExports |-> FALSE]

\* a planner that does not look at the flag
KeepsOriginalImport_Never(exportInfo) == FALSE

\* if (exportInfo.isIgnored): the binding goes to remainingSpecifiers
KeepsOriginalImport(exportInfo) == exportInfo.isIgnored

\* the body of the loop over the specifiers; k is the index of the entry exports.find returned
PlanSpecifier(st, specifier, k, filePath, packageName, exportInfos, inclExt) ==
    IF specifier.type # "ImportSpecifier"
    THEN [st EXCEPT !.remainingSpecifiers = Append(@, specifier)]
    ELSE IF k # 0
    THEN IF KeepsOriginalImport(exportInfos[k])
         THEN [st EXCEPT !.remainingSpecifiers = Append(@, specifier)]
         ELSE [st EXCEPT
                 !.importsBySource =
                     MapPush(@, ImportPath(packageName, exportInfos[k].source, inclExt),
                             ImportSpecifier(specifier.local, specifier.imported)),
                 !.hasDirectExports = TRUE]
    ELSE IF IsReExport(exportInfos)
    THEN [st EXCEPT
            !.warnings = Append(@, ReExportWarning(specifier.imported, filePath)),
            !.remainingSpecifiers = Append(@, specifier)]
    ELSE [st EXCEPT
            !.warnings = Append(@, NotFoundWarning(specifier.imported, filePath)),
            !.remainingSpecifiers = Append(@, specifier)]

\* the loop over the specifiers of one import declaration from packageName
PlanSpecifiers(specifiers, filePath, packageName, exportInfos, inclExt) ==
    LET F[i \in 0..Len(specifiers)] ==
          IF i = 0 THEN EmptyPlan
          ELSE PlanSpecifier(F[i - 1], specifiers[i],
                             FindExportInfo(exportInfos, specifiers[i].imported),
                             filePath, packageName, exportInfos, inclExt)
    IN F[Len(specifiers)]

\* the new declarations with the one for the remaining specifiers pushed last
NewImports_RemainderLast(plan, packageName) ==
    [i \in 1..Len(plan.importsBySource) |->
        importDeclaration(plan.importsBySource[i].specs, plan.importsBySource[i].path)]
    \o (IF Len(plan.remainingSpecifiers) > 0
        THEN <<importDeclaration(plan.remainingSpecifiers, packageName)>>
        ELSE <<>>)

\* the declarations that replace an import declaration whose plan has direct exports
NewImports(plan, packageName) ==
    (IF Len(plan.remainingSpecifiers) > 0
     THEN <<importDeclaration(plan.remainingSpecifiers, packageName)>>
     ELSE <<>>)
    \o [i \in 1..Len(plan.importsBySource) |->
          importDeclaration(plan.importsBySource[i].specs, plan.importsBySource[i].path)]

\* a plan that sets modified although no binding was routed to a direct path
ModifiedBy_AnyPlan(plan) == TRUE

\* modified = true is executed exactly where a binding is pushed to importsBySource
ModifiedBy(plan) == plan.hasDirectExports

\* the traversal state before the first statement
NoTraversal ==
    [ast |-> <<>>, processedImports |-> {}, modified |-> FALSE,
     importCount |-> 0, warnings |-> <<>>, groups |-> <<>>]

\* an import declaration from packageName whose specifiers have been planned: kept as it is
\* when the plan routes nothing, replaced by the new declarations otherwise
ReplaceImport(st, node, plan, packageName) ==
    IF ~plan.hasDirectExports
    THEN [st EXCEPT !.ast = Append(@, node),
                    !.processedImports = @ \cup {node.source},
                    !.importCount = @ + 1,
                    !.modified = @ \/ ModifiedBy(plan),
                    !.warnings = @ \o plan.warnings]
    ELSE [st EXCEPT !.ast = @ \o NewImports(plan, packageName),
                    !.processedImports = @ \cup {node.source},
                    !.importCount = @ + 1,
                    !.modified = @ \/ ModifiedBy(plan),
                    !.warnings = @ \o plan.warnings,
                    !.groups = @ \o plan.importsBySource]

\* the ImportDeclaration visitor applied to one statement
ImportDeclarationVisitor(st, node, filePath, packageName, exportInfos, inclExt) ==
    IF node.type # "ImportDeclaration" \/ node.source \in st.processedImports
       \/ node.source # packageName
    THEN [st EXCEPT !.ast = Append(@, node)]
    ELSE ReplaceImport(st, node,
                       PlanSpecifiers(node.specifiers, filePath, packageName,
                                      exportInfos, inclExt),
                       packageName)

\* the traversal of the consumer's statements by the ImportDeclaration visitor
TraverseImports(body, filePath, packageName, exportInfos, inclExt) ==
    LET F[i \in 0..Len(body)] ==
          IF i = 0 THEN NoTraversal
          ELSE ImportDeclarationVisitor(F[i - 1], body[i], filePath, packageName,
                                        exportInfos, inclExt)
    IN F[Len(body)]

\* a write that does not look at modified
Persist_Always(text, ast, modified) == generate(ast)

\* if (modified) writeFileSync(filePath, generate(ast).code): the file's content afterwards
Persist(text, ast, modified) == IF modified THEN generate(ast) ELSE text

\* what updateImports leaves behind once the traversal t has ended.
\*   written  - writeFileSync was called;  text - the file's content afterwards;
\*   threw    - the try block threw (stats.errors is incremented)
Outcome(text, t) ==
    [text |-> Persist(text, t.ast, t.modified),
     modified |-> t.modified, written |-> t.modified, threw |-> FALSE,
     warnings |-> t.warnings, groups |-> t.groups, importCount |-> t.importCount]

\* updateImports
updateImports(text, filePath, packageName, exportInfos, inclExt) ==
    IF ParseThrows(text)
    THEN [text |-> text, modified |-> FALSE, written |-> FALSE, threw |-> TRUE,
          warnings |-> <<>>, groups |-> <<>>, importCount |-> 0]
    ELSE Outcome(text, TraverseImports(text.body, filePath, packageName, exportInfos, inclExt))

----------------------------------------------------------------------------
(* findImports of src/src/migrate-barrel-imports.ts *)

\* packageInfo.name of a package.json without a name: undefined, equal to no string
Undefined == <<>>

\* `${packageName}`: the text a template literal gives for a name
TemplateLiteral(packageName) ==
    IF packageName = Undefined THEN <<"undefined">> ELSE packageName

\* source === packageName || source.startsWith(`${packageName}/`)
ImportsFromPackage(node, packageName) ==
    /\ node.type = "ImportDeclaration"
    /\ \/ node.source = packageName
       \/ StartsWith(node.source, TemplateLiteral(packageName) \o <<"/">>)

\* an array in the place of the Set: allFiles.push(file)
SetAdd_Push(allFiles, file) == Append(allFiles, file)

\* allFiles.add(file): a Set holds each file once, in insertion order
SetAdd(allFiles, file) ==
    IF Contains(allFiles, file) THEN allFiles ELSE Append(allFiles, file)

\* the body of the loop over files: parse, then the ImportDeclaration visitor over the
\* statements; a file that does not parse adds nothing
ScanImports(allFiles, entry, packageName) ==
    LET F[i \in 0..Len(entry.text.body)] ==
          IF i = 0 THEN allFiles
          ELSE IF ImportsFromPackage(entry.text.body[i], packageName)
          THEN SetAdd(F[i - 1], entry.file)
          ELSE F[i - 1]
    IN IF ParseThrows(entry.text) THEN allFiles ELSE F[Len(entry.text.body)]

\* findImports over a target tree, a sequence of [file, text] in fast-glob's order
findImportsIn(targetTree, packageName) ==
    LET F[i \in 0..Len(targetTree)] ==
          IF i = 0 THEN <<>> ELSE ScanImports(F[i - 1], targetTree[i], packageName)
    IN F[Len(targetTree)]

\* findImports over a target tree that holds the one consumer file: the files that parse
\* and hold at least one import declaration from the package (a Set, so each file once)
findImports(packageName, filePath, text) ==
    IF ParseThrows(text) THEN <<>>
    ELSE IF \E i \in 1..Len(text.body) : ImportsFromPackage(text.body[i], packageName)
    THEN <<filePath>>
    ELSE <<>>

----------------------------------------------------------------------------
(* The inputs of the model *)

\* name in the package.json of the source package
PackageName == <<"@test/source-lib">>

\* another package, whose name has PackageName as a prefix
OtherPackageName == <<"@test/source-lib", "-extra">>

\* the consumer file
TargetFile == <<"target-app/", "src/", "app", ".ts">>

Variable == "VariableDeclaration"

\* the modules a source package is made of
ModuleMenu ==
    { [file |-> <<"src/", "a", ".ts">>, parses |-> TRUE,
       body |-> <<ExportDecl(Variable, <<"a">>)>>],
      [file |-> <<"src/", "a", ".stories", ".ts">>, parses |-> TRUE,
       body |-> <<ExportDecl(Variable, <<"a">>)>>],
      [file |-> <<"src/", "b", ".ts">>, parses |-> TRUE,
       body |-> <<ExportDecl("TSEnumDeclaration", <<"b">>),
                  ExportDecl("TSEnumDeclaration", <<"c">>)>>],
      [file |-> <<"src/", "c", ".ts">>, parses |-> TRUE,
       body |-> <<ExportDecl("FunctionDeclaration", <<"a">>)>>],
      [file |-> <<"src/", "bad", ".ts">>, parses |-> FALSE,
       body |-> <<>>],
      [file |-> <<"src/", "index", ".ts">>, parses |-> TRUE,
       body |-> <<ExportAll(<<"./", "a">>), ExportAll(<<"./", "b">>)>>],
      [file |-> <<"src/", "index", ".ts">>, parses |-> TRUE,
       body |-> <<ExportSpecifiers(<<"a">>, <<"./", "a">>)>>],
      [file |-> <<"src/", "index", ".ts">>, parses |-> TRUE,
       body |-> <<ExportAll(<<"./", "a">>),
                  ExportSpecifiers(<<"s">>, <<"external-package">>),
                  ExportSpecifiers(<<"t">>, <<"another-package">>)>>],
      [file |-> <<"src/", "index", ".ts">>, parses |-> TRUE,
       body |-> <<ExportSpecifiers(<<"a">>, <<"external-package">>)>>],
      [file |-> <<"src/", "index", ".ts">>, parses |-> TRUE,
       body |-> <<ExportDecl(Variable, <<"m">>),
                  ExportDefault("ClassDeclaration", <<"D">>)>>],
      [file |-> <<"src/", "sub/", "index", ".ts">>, parses |-> TRUE,
       body |-> <<ExportAll(<<"../", "index">>),
                  ExportDefault("FunctionDeclaration", <<"f">>)>>] }

\* the source packages: up to MaxModules modules with different paths, in every order
\* in which fast-glob may list them
Packages ==
    UNION { {p \in [1..n -> ModuleMenu] : \A i, j \in 1..n : p[i].file = p[j].file => i = j}
            : n \in 1..MaxModules }

\* the values of options.ignoreSourceFiles
IgnoreMenu == {<<>>, <<"**/*.stories.*", "**/b.*">>}

\* the import declarations a consumer file is made of
ImportMenu ==
    { importDeclaration(<<ImportSpecifier("a", "a")>>, PackageName),
      importDeclaration(<<ImportSpecifier("a", "a"), ImportSpecifier("b", "b")>>, PackageName),
      importDeclaration(<<ImportSpecifier("b", "b"), ImportSpecifier("c", "c")>>, PackageName),
      importDeclaration(<<ImportSpecifier("a", "a"), ImportSpecifier("u", "u")>>, PackageName),
      importDeclaration(<<ImportSpecifier("z", "a"), ImportSpecifier("s", "s"),
                          ImportSpecifier("t", "t")>>, PackageName),
      importDeclaration(<<ImportDefaultSpecifier("d"), ImportSpecifier("a", "a")>>, PackageName),
      importDeclaration(<<ImportNamespaceSpecifier("ns")>>, PackageName),
      importDeclaration(<<ImportSpecifier("D", "D"), ImportSpecifier("f", "f"),
                          ImportSpecifier("m", "m")>>, PackageName),
      importDeclaration(<<ImportSpecifier("sa", "a")>>, PackageName \o <<"/", "sub">>),
      importDeclaration(<<ImportSpecifier("xa", "a")>>, OtherPackageName) }

\* the local names an import declaration binds
LocalNames(node) == {node.specifiers[k].local : k \in 1..Len(node.specifiers)}

\* the consumer files: 1..MaxImports import declarations followed by one other statement.
\* No two declarations bind the same local name: parse() rejects such a module.
ConsumerBodies ==
    UNION { {imps \o <<OtherStatement>> :
                imps \in {q \in [1..n -> ImportMenu] :
                            \A i, j \in 1..n :
                                i # j => LocalNames(q[i]) \cap LocalNames(q[j]) = {}}}
            : n \in 1..MaxImports }

\* MigrationStats at the start of a run (the counters the file loop and the package loop keep)
NoStats ==
    [totalFiles |-> 0, filesProcessed |-> 0, filesSkipped |-> 0, importsUpdated |-> 0,
     filesWithNoUpdates |-> 0, errors |-> 0, packagesProcessed |-> 0, packagesSkipped |-> 0,
     warnings |-> <<>>]

\* no updateImports call has been made in this run
NoCall ==
    [called |-> FALSE, before |-> Text("src", <<>>), modified |-> FALSE, written |-> FALSE,
     threw |-> FALSE, groups |-> <<>>, warnings |-> <<>>, exports |-> <<>>]

\* a run over one package and one consumer file keeps no package queue and no tree
NoTree ==
    /\ sourceDirs = <<>>
    /\ tree = <<>>
    /\ treeAtStart = <<>>
    /\ ignoreTargetFiles = <<>>
    /\ packageJsonPaths = <<>>
    /\ packageInfo = <<>>
    /\ log = <<>>

\* main() of cli.ts is not part of a run started through migrateBarrelImports
NoCli ==
    /\ argv = <<>>
    /\ cli = <<>>

\* findExports is taken as one step
NoScan ==
    /\ toScan = <<>>
    /\ scanned = <<>>

\* the trees and options a run starts from; a package whose package.json cannot be
\* parsed is tried with every package and one consumer file
Inputs ==
    /\ NoTree
    /\ NoCli
    /\ NoScan
    /\ modules \in Packages
    /\ packageJsonOk \in BOOLEAN
    /\ ignoreSourceFiles \in IgnoreMenu
    /\ includeExtension \in BOOLEAN
    /\ content \in {Text("src", b) : b \in ConsumerBodies}
    /\ ~packageJsonOk =>
          /\ content = Text("src", <<importDeclaration(<<ImportSpecifier("a", "a")>>, PackageName),
                                     OtherStatement>>)
          /\ includeExtension
          /\ ignoreSourceFiles = <<>>
    /\ original = content
    /\ atRunStart = content
    /\ pc = "idle"
    /\ run = 0
    /\ exports = <<>>
    /\ files = <<>>
    /\ last = NoCall

Init ==
    /\ Inputs
    /\ stats = NoStats

----------------------------------------------------------------------------
(* migrateBarrelImports of src/src/migrate-barrel-imports.ts *)

\* a run starts: the statistics are zeroed and the package directory is found
StartRun ==
    /\ pc = "idle"
    /\ run < MaxRuns
    /\ run' = run + 1
    /\ stats' = NoStats
    /\ last' = NoCall
    /\ atRunStart' = content
    /\ pc' = "package"
    /\ UNCHANGED <<treeVars, cliVars, scanVars>>
    /\ UNCHANGED <<modules, packageJsonOk, ignoreSourceFiles, includeExtension, content,
                   original, exports, files>>

\* getPackageInfo throws: the package is skipped
SkipPackage ==
    /\ pc = "package"
    /\ ~packageJsonOk
    /\ stats' = [stats EXCEPT !.packagesSkipped = @ + 1]
    /\ pc' = "summary"
    /\ UNCHANGED <<treeVars, cliVars, scanVars>>
    /\ UNCHANGED <<modules, packageJsonOk, ignoreSourceFiles, includeExtension, content,
                   original, run, exports, files, last, atRunStart>>

\* getPackageInfo, findExports and findImports of one package
ScanPackage ==
    /\ pc = "package"
    /\ packageJsonOk
    /\ exports' = findExports(modules, ignoreSourceFiles)
    /\ files' = findImports(PackageName, TargetFile, content)
    /\ stats' = [stats EXCEPT !.totalFiles = @ + Len(files')]
    /\ pc' = "files"
    /\ UNCHANGED <<treeVars, cliVars, scanVars>>
    /\ UNCHANGED <<modules, packageJsonOk, ignoreSourceFiles, includeExtension, content,
                   original, run, last, atRunStart>>

\* one iteration of the loop over the files that import from the package
ProcessFile ==
    /\ pc = "files"
    /\ files # <<>>
    /\ \E r \in {updateImports(content, Head(files), PackageName, exports, includeExtension)} :
          /\ content' = r.text
          /\ last' = [called |-> TRUE, before |-> content, modified |-> r.modified,
                      written |-> r.written, threw |-> r.threw, groups |-> r.groups,
                      warnings |-> r.warnings, exports |-> exports]
          /\ stats' = [stats EXCEPT
                         !.errors = IF r.threw THEN @ + 1 ELSE @,
                         !.warnings = @ \o r.warnings,
                         !.importsUpdated = IF content # r.text THEN @ + 1 ELSE @,
                         !.filesWithNoUpdates = IF content # r.text THEN @ ELSE @ + 1,
                         !.filesProcessed = @ + 1]
    /\ files' = Tail(files)
    /\ UNCHANGED <<treeVars, cliVars, scanVars>>
    /\ UNCHANGED <<modules, packageJsonOk, ignoreSourceFiles, includeExtension, original,
                   pc, run, exports, atRunStart>>

\* the file loop has ended
FinishPackage ==
    /\ pc = "files"
    /\ files = <<>>
    /\ stats' = [stats EXCEPT !.packagesProcessed = @ + 1]
    /\ exports' = <<>>
    /\ pc' = "summary"
    /\ UNCHANGED <<treeVars, cliVars, scanVars>>
    /\ UNCHANGED <<modules, packageJsonOk, ignoreSourceFiles, includeExtension, content,
                   original, run, files, last, atRunStart>>

\* the migration summary is printed and the run returns
Summary ==
    /\ pc = "summary"
    /\ pc' = "idle"
    /\ UNCHANGED <<treeVars, cliVars, scanVars>>
    /\ UNCHANGED <<modules, packageJsonOk, ignoreSourceFiles, includeExtension, content,
                   original, run, exports, files, last, atRunStart, stats>>

Next ==
    \/ StartRun
    \/ SkipPackage
    \/ ScanPackage
    \/ ProcessFile
    \/ FinishPackage
    \/ Summary

Spec == Init /\ [][Next]_vars

----------------------------------------------------------------------------
(* findExports followed through its loop, on packages whose barrels re-export each    *)
(* other (specification SpecScan)                                                      *)

\* the modules of the package of the test 'Circular dependencies in barrel files', and an
\* index.ts that re-exports circular.ts as well, which closes the cycle
CyclicMenu ==
    { [file |-> <<"src/", "a", ".ts">>, parses |-> TRUE,
       body |-> <<ExportDecl(Variable, <<"a">>)>>],
      [file |-> <<"src/", "b", ".ts">>, parses |-> TRUE,
       body |-> <<ExportDecl(Variable, <<"b">>)>>],
      [file |-> <<"src/", "index", ".ts">>, parses |-> TRUE,
       body |-> <<ExportAll(<<"./", "a">>), ExportAll(<<"./", "b">>)>>],
      [file |-> <<"src/", "index", ".ts">>, parses |-> TRUE,
       body |-> <<ExportAll(<<"./", "a">>), ExportAll(<<"./", "b">>),
                  ExportAll(<<"./", "circular">>)>>],
      [file |-> <<"src/", "circular", ".ts">>, parses |-> TRUE,
       body |-> <<ExportAll(<<"./", "index">>), ExportDecl(Variable, <<"c">>)>>] }

\* most modules in a package with cyclic barrels
MaxCycle == 4

\* the packages: up to MaxCycle of the modules, with different paths, in every order
CyclicPackages ==
    UNION { {p \in [1..n -> CyclicMenu] : \A i, j \in 1..n : p[i].file = p[j].file => i = j}
            : n \in 1..MaxCycle }

\* the consumer files: the one of the test and two with fewer or renamed bindings
CyclicConsumers ==
    { Text("src", <<importDeclaration(<<ImportSpecifier("a", "a"), ImportSpecifier("b", "b"),
                                        ImportSpecifier("c", "c")>>, PackageName)>>),
      Text("src", <<importDeclaration(<<ImportSpecifier("c", "c")>>, PackageName),
                    OtherStatement>>),
      Text("src", <<importDeclaration(<<ImportSpecifier("cc", "c"), ImportSpecifier("a", "a")>>,
                                      PackageName),
                    OtherStatement>>) }

\* the state before migrateBarrelImports is called on such a package
InitScan ==
    /\ NoTree
    /\ NoCli
    /\ NoScan
    /\ modules \in CyclicPackages
    /\ packageJsonOk = TRUE
    /\ ignoreSourceFiles = <<>>
    /\ includeExtension \in BOOLEAN
    /\ content \in CyclicConsumers
    /\ original = content
    /\ atRunStart = content
    /\ pc = "idle"
    /\ run = 0
    /\ exports = <<>>
    /\ files = <<>>
    /\ last = NoCall
    /\ stats = NoStats

\* the specifiers a module re-exports from
ReExportSources(m) ==
    {m.body[i].source : i \in {j \in 1..Len(m.body) : m.body[j].source # NoSource}}

\* the module of the package a relative specifier of a module in src/ names: ./x is
\* src/x.ts
IsNamedBy(m, source) == Len(source) = 2 /\ m.file = <<"src/", source[2], ".ts">>

\* a loop that follows re-exports: the modules the visited module re-exports from are
\* queued behind the files still to come
NextModules_FollowReExports(remaining, allFiles) ==
    Tail(remaining)
    \o SelectSeq(allFiles, LAMBDA m : \E src \in ReExportSources(Head(remaining)) :
                                          IsNamedBy(m, src))

\* for (const file of allFiles): the loop takes the next file of the list fast-glob
\* returned; no visitor opens another file
NextModules(remaining, allFiles) == Tail(remaining)

\* a run starts and findExports lists the files of the package
StartRunScan ==
    /\ pc = "idle"
    /\ run < MaxRuns
    /\ run' = run + 1
    /\ stats' = NoStats
    /\ last' = NoCall
    /\ atRunStart' = content
    /\ toScan' = modules
    /\ scanned' = <<>>
    /\ exports' = <<>>
    /\ pc' = "scan"
    /\ UNCHANGED <<treeVars, cliVars>>
    /\ UNCHANGED <<modules, packageJsonOk, ignoreSourceFiles, includeExtension, content,
                   original, files>>

\* one iteration of the loop of findExports: the file is read, parsed and traversed, and
\* the entries of its own export statements are pushed
VisitModule ==
    /\ pc = "scan"
    /\ toScan # <<>>
    /\ exports' = exports \o ScanModule(Head(toScan), ignoreSourceFiles)
    /\ scanned' = Append(scanned, Head(toScan).file)
    /\ toScan' = NextModules(toScan, modules)
    /\ UNCHANGED <<treeVars, cliVars>>
    /\ UNCHANGED <<modules, packageJsonOk, ignoreSourceFiles, includeExtension, content,
                   original, pc, run, files, last, atRunStart, stats>>

\* the loop of findExports has ended: findExports returns and findImports is called
EndScan ==
    /\ pc = "scan"
    /\ toScan = <<>>
    /\ files' = findImports(PackageName, TargetFile, content)
    /\ stats' = [stats EXCEPT !.totalFiles = @ + Len(files')]
    /\ pc' = "files"
    /\ UNCHANGED <<treeVars, cliVars>>
    /\ UNCHANGED <<modules, packageJsonOk, ignoreSourceFiles, includeExtension, content,
                   original, run, exports, last, atRunStart, toScan, scanned>>

NextScan ==
    \/ StartRunScan
    \/ VisitModule
    \/ EndScan
    \/ ProcessFile
    \/ FinishPackage
    \/ Summary

SpecScan == InitScan /\ [][NextScan]_vars

\* a run is one thread of control: a step that can be taken is taken
SpecScanFair == SpecScan /\ WF_vars(NextScan)

----------------------------------------------------------------------------
(* findExports of src/unnamed/part_001 *)

\* a Record<string, T> without keys
NoRecord == <<>>

\* record[key] = value
RecordSet(record, key, value) ==
    [n \in DOMAIN record \cup {key} |-> IF n = key THEN value ELSE record[n]]

\* if (!exportFiles[name]) exportFiles[name] = []; exportFiles[name].push(file)
TrackFile(exportFiles, name, file) ==
    RecordSet(exportFiles, name,
              IF name \in DOMAIN exportFiles THEN Append(exportFiles[name], file) ELSE <<file>>)

\* TrackFile for each of the names, in their order
TrackFiles(exportFiles, names, file) ==
    LET F[i \in 0..Len(names)] ==
          IF i = 0 THEN exportFiles ELSE TrackFile(F[i - 1], names[i], file)
    IN F[Len(names)]

\* reExports[exportName] = sourceValue for each of the names
SetReExports(reExports, names, sourceValue) ==
    LET F[i \in 0..Len(names)] ==
          IF i = 0 THEN reExports ELSE RecordSet(F[i - 1], names[i], sourceValue)
    IN F[Len(names)]

\* isBarrelFile: the file parses and holds an export declaration with a source
isBarrelFile(m) ==
    /\ m.parses
    /\ \E i \in 1..Len(m.body) :
          m.body[i].type = "ExportNamedDeclaration" /\ m.body[i].source # NoSource

\* what the scan of one file has collected before its first statement; exportFiles is
\* the function-level record shared by all files
FileScan(exportFiles) ==
    [fileExports |-> <<>>, reExports |-> NoRecord, defaultExportNames |-> <<>>,
     exportFiles |-> exportFiles]

\* the ExportNamedDeclaration visitor, names being the names of the node's export specifiers
ExportNamedDeclaration_p1(st, node, names, file) ==
    IF node.source # NoSource
       /\ (IncludesNodeModules(node.source) \/ ~StartsWithDot(node.source))
    THEN [st EXCEPT !.reExports = SetReExports(@, names, node.source),
                    !.fileExports = @ \o names,
                    !.exportFiles = TrackFiles(@, names, file)]
    ELSE [st EXCEPT
            !.fileExports = @ \o getExportNames(node.declaration) \o names,
            !.exportFiles =
                TrackFiles(TrackFiles(@, getExportNames(node.declaration), file),
                           IF node.source # NoSource /\ StartsWithDot(node.source)
                           THEN names ELSE <<>>,
                           file)]

\* the name the ExportDefaultDeclaration visitor gives a default export
DefaultExportName(declaration) ==
    IF declaration.kind = "Identifier"
       \/ (declaration.kind \in {"FunctionDeclaration", "ClassDeclaration"}
           /\ Len(declaration.ids) > 0)
    THEN declaration.ids[1]
    ELSE "default"

\* the ExportDefaultDeclaration visitor
ExportDefaultDeclaration_p1(st, exportName) ==
    [st EXCEPT !.fileExports = Append(@, exportName),
               !.defaultExportNames =
                   IF exportName # "default" THEN Append(@, exportName) ELSE @]

\* traverse(ast, {...}) over the statements of one file
ScanModule_p1(m, exportFiles) ==
    LET F[i \in 0..Len(m.body)] ==
          IF i = 0 THEN FileScan(exportFiles)
          ELSE CASE m.body[i].type = "ExportNamedDeclaration" ->
                      ExportNamedDeclaration_p1(F[i - 1], m.body[i],
                                                SpecifierNames(m.body[i].specifiers), m.file)
                 [] m.body[i].type = "ExportDefaultDeclaration" ->
                      ExportDefaultDeclaration_p1(F[i - 1],
                                                  DefaultExportName(m.body[i].declaration))
                 [] OTHER -> F[i - 1]
    IN F[Len(m.body)]

\* exports.push({...}) after the scan sc of file m; hasExportFiles records whether the
\* shared exportFiles had a key when the entry was built
PushEntry(acc, m, sc, isIgnored) ==
    IF Len(sc.fileExports) > 0 \/ DOMAIN sc.reExports # {}
    THEN [exports |-> Append(acc.exports,
                             [source |-> m.file, exports |-> sc.fileExports,
                              isIgnored |-> isIgnored, reExports |-> sc.reExports,
                              defaultExportNames |-> sc.defaultExportNames,
                              isBarrelFile |-> isBarrelFile(m),
                              hasExportFiles |-> DOMAIN sc.exportFiles # {}]),
          exportFiles |-> sc.exportFiles]
    ELSE [exports |-> acc.exports, exportFiles |-> sc.exportFiles]

\* the second pass of findExports over allFiles; a file that does not parse adds nothing
ScanFiles_p1(allFiles, patterns) ==
    LET F[i \in 0..Len(allFiles)] ==
          IF i = 0 THEN [exports |-> <<>>, exportFiles |-> NoRecord]
          ELSE IF ~allFiles[i].parses THEN F[i - 1]
          ELSE PushEntry(F[i - 1], allFiles[i],
                         ScanModule_p1(allFiles[i], F[i - 1].exportFiles),
                         IsIgnoredSource(allFiles[i].file, patterns))
    IN F[Len(allFiles)]

\* every entry built with ...{ exportFiles } refers to the one shared record, whose
\* content is the one the scan ended with
ShareExportFiles(scan) ==
    [i \in 1..Len(scan.exports) |->
        [source |-> scan.exports[i].source,
         exports |-> scan.exports[i].exports,
         isIgnored |-> scan.exports[i].isIgnored,
         reExports |-> scan.exports[i].reExports,
         defaultExportNames |-> scan.exports[i].defaultExportNames,
         isBarrelFile |-> scan.exports[i].isBarrelFile,
         exportFiles |-> IF scan.exports[i].hasExportFiles
                         THEN scan.exportFiles ELSE NoRecord]]

\* findExports
findExports_p1(allFiles, patterns) == ShareExportFiles(ScanFiles_p1(allFiles, patterns))

----------------------------------------------------------------------------
(* updateImports of src/unnamed/part_001 *)

\* record?.[key], <<>> standing for undefined
Lookup(record, key) == IF key \in DOMAIN record THEN record[key] ELSE <<>>

\* a first pass that collects the imports from the bare package name only
Collected_BareOnly(node, packageName) ==
    node.type = "ImportDeclaration" /\ node.source = packageName

\* the import declarations collected by the first pass: importSource.startsWith(packageName)
Collected(node, packageName) ==
    node.type = "ImportDeclaration" /\ StartsWith(node.source, packageName)

\* the specifiers of the collected declarations, in the order of the two nested loops
CollectedSpecifiers(body, packageName) ==
    LET F[i \in 0..Len(body)] ==
          IF i = 0 THEN <<>>
          ELSE IF Collected(body[i], packageName) THEN F[i - 1] \o body[i].specifiers
          ELSE F[i - 1]
    IN F[Len(body)]

\* file is not a story, a test or a spec
IsMainFile(file) ==
    /\ ~IncludesThenDot(file, ".stories")
    /\ ~IncludesThenDot(file, ".test")
    /\ ~IncludesThenDot(file, ".spec")
    /\ ~IncludesThenSlash(file, ".stories")
    /\ ~IncludesThenSlash(file, ".test")
    /\ ~IncludesThenSlash(file, ".spec")

\* exportFiles.filter(...)
SelectMainFiles(exportFiles) == SelectSeq(exportFiles, IsMainFile)

\* a choice that takes the first file that exports the name, auxiliary or not
BestSourceFile_AnyFirst(exportFiles) ==
    IF Len(exportFiles) = 0 THEN <<>> ELSE exportFiles[1]

\* bestSourceFile, <<>> standing for undefined
BestSourceFile(exportFiles) ==
    IF Len(exportFiles) = 0 THEN <<>>
    ELSE IF Len(exportFiles) > 1 /\ Len(SelectMainFiles(exportFiles)) > 0
    THEN SelectMainFiles(exportFiles)[1]
    ELSE exportFiles[1]

\* `${packageName}/${file}`, the extension replaced unless includeExtension
SourcePath(packageName, file, inclExt) ==
    IF inclExt
    THEN DirectPath(packageName, file)
    ELSE DirectPath(packageName, ReplaceLastExtension(file))

\* importsBySource.get(sourcePath).push({local, imported}); modified = true
Route(st, sourcePath, specifier) ==
    [st EXCEPT !.importsBySource =
                   MapPush(@, sourcePath, ImportSpecifier(specifier.local, specifier.imported)),
               !.modified = TRUE]

\* some group already holds a binding whose imported name is importName
HasOriginalImport(importsBySource, importName) ==
    \E i \in 1..Len(importsBySource) :
        \E j \in 1..Len(importsBySource[i].specs) :
            importsBySource[i].specs[j].imported = importName

\* the end of the loop body: the best source file of the name decides
RouteToBestSource(st, specifier, bestSourceFile, packageName, inclExt) ==
    IF bestSourceFile # <<>>
    THEN IF specifier.local = specifier.imported
            \/ ~HasOriginalImport(st.importsBySource, specifier.imported)
         THEN Route(st, SourcePath(packageName, bestSourceFile, inclExt), specifier)
         ELSE st
    ELSE [st EXCEPT !.remainingSpecifiers = Append(@, specifier)]

\* a planner that knows no external re-export
ExternalReExport_None(exportInfo, importName) == <<>>

\* exportInfo.reExports?.[importName] when it does not start with '.', <<>> otherwise
ExternalReExport(exportInfo, importName) ==
    IF Lookup(exportInfo.reExports, importName) # <<>>
       /\ ~StartsWithDot(Lookup(exportInfo.reExports, importName))
    THEN Lookup(exportInfo.reExports, importName)
    ELSE <<>>

\* the loop body for an import specifier whose name exportInfo lists
PlanFound_p1(st, specifier, exportInfo, packageName, inclExt) ==
    IF exportInfo.isIgnored
    THEN [st EXCEPT !.remainingSpecifiers = Append(@, specifier)]
    ELSE IF ExternalReExport(exportInfo, specifier.imported) # <<>>
    THEN Route(st, ExternalReExport(exportInfo, specifier.imported), specifier)
    ELSE IF exportInfo.source = <<"src/", "index", ".ts">>
            /\ Lookup(exportInfo.reExports, specifier.imported) = <<>>
            /\ Contains(exportInfo.defaultExportNames, specifier.imported)
    THEN Route(st, packageName, specifier)
    ELSE IF exportInfo.source = <<"src/", "index", ".ts">>
            /\ Lookup(exportInfo.reExports, specifier.imported) = <<>>
            /\ specifier.imported # "default"
    THEN Route(st, SourcePath(packageName, exportInfo.source, inclExt), specifier)
    ELSE RouteToBestSource(st, specifier,
                           BestSourceFile(Lookup(exportInfo.exportFiles, specifier.imported)),
                           packageName, inclExt)

\* the loop body; k is the index of the entry exports.find returned.  A specifier that is
\* not an ImportSpecifier, or whose name no entry lists, is pushed nowhere
PlanSpecifier_p1(st, specifier, k, packageName, exportInfos, inclExt) ==
    IF specifier.type = "ImportSpecifier" /\ k # 0
    THEN PlanFound_p1(st, specifier, exportInfos[k], packageName, inclExt)
    ELSE st

\* the two nested loops over the collected declarations and their specifiers
PlanSpecifiers_p1(specifiers, packageName, exportInfos, inclExt) ==
    LET F[i \in 0..Len(specifiers)] ==
          IF i = 0
          THEN [importsBySource |-> <<>>, remainingSpecifiers |-> <<>>, modified |-> FALSE]
          ELSE PlanSpecifier_p1(F[i - 1], specifiers[i],
                                FindExportInfo(exportInfos, specifiers[i].imported),
                                packageName, exportInfos, inclExt)
    IN F[Len(specifiers)]

\* the second pass: path.remove() on every collected declaration
RemoveCollected(body, packageName) ==
    LET F[i \in 0..Len(body)] ==
          IF i = 0 THEN <<>>
          ELSE IF Collected(body[i], packageName) THEN F[i - 1]
          ELSE Append(F[i - 1], body[i])
    IN F[Len(body)]

\* newImports: one declaration per group, then the remainder from packageName
NewImports_p1(plan, packageName) ==
    [i \in 1..Len(plan.importsBySource) |->
        importDeclaration(plan.importsBySource[i].specs, plan.importsBySource[i].path)]
    \o (IF Len(plan.remainingSpecifiers) > 0
        THEN <<importDeclaration(plan.remainingSpecifiers, packageName)>>
        ELSE <<>>)

\* stats.importsMigrated += specifiers.length, over the groups
CountMigrated(importsBySource) ==
    LET F[i \in 0..Len(importsBySource)] ==
          IF i = 0 THEN 0 ELSE F[i - 1] + Len(importsBySource[i].specs)
    IN F[Len(importsBySource)]

\* what updateImports leaves behind once the plan is made:
\* ast.program.body.unshift(...newImports) and the write guarded by modified
Outcome_p1(text, plan, newImports, packageName) ==
    [text |-> IF plan.modified \/ Len(newImports) > 0
              THEN generate(newImports \o RemoveCollected(text.body, packageName))
              ELSE text,
     modified |-> plan.modified \/ Len(newImports) > 0,
     written |-> plan.modified \/ Len(newImports) > 0,
     threw |-> FALSE,
     warnings |-> <<>>,
     groups |-> plan.importsBySource,
     migrated |-> CountMigrated(plan.importsBySource)]

\* the Outcome of a planned file
Planned_p1(text, plan, packageName) ==
    Outcome_p1(text, plan, NewImports_p1(plan, packageName), packageName)

\* updateImports
updateImports_p1(text, filePath, packageName, exportInfos, inclExt) ==
    IF ParseThrows(text)
    THEN [text |-> text, modified |-> FALSE, written |-> FALSE, threw |-> TRUE,
          warnings |-> <<>>, groups |-> <<>>, migrated |-> 0]
    ELSE Planned_p1(text,
                    PlanSpecifiers_p1(CollectedSpecifiers(text.body, packageName),
                                      packageName, exportInfos, inclExt),
                    packageName)

----------------------------------------------------------------------------
(* migrateBarrelImports of src/unnamed/part_001 *)

\* const stats: MigrationStats = {...}; const warnings: string[] = []
NoStats_p1 ==
    [sourcePackagesFound |-> 0, sourcePackagesProcessed |-> 0, sourcePackagesSkipped |-> 0,
     exportsFound |-> 0, sourceFilesWithExports |-> 0, targetFilesFound |-> 0,
     targetFilesProcessed |-> 0, importsUpdated |-> 0, noChangesNeeded |-> 0,
     targetFilesSkipped |-> 0, importsMigrated |-> 0, warnings |-> <<>>]

InitP1 ==
    /\ Inputs
    /\ stats = NoStats_p1

\* exports.reduce((total, info) => total + info.exports.length, 0)
CountExports(exportInfos) ==
    LET F[i \in 0..Len(exportInfos)] ==
          IF i = 0 THEN 0 ELSE F[i - 1] + Len(exportInfos[i].exports)
    IN F[Len(exportInfos)]

\* a run starts: the statistics are zeroed and findSourcePackages finds the package
StartRun_p1 ==
    /\ pc = "idle"
    /\ run < MaxRuns
    /\ run' = run + 1
    /\ stats' = [NoStats_p1 EXCEPT !.sourcePackagesFound = 1]
    /\ last' = NoCall
    /\ atRunStart' = content
    /\ pc' = "package"
    /\ UNCHANGED <<treeVars, cliVars, scanVars>>
    /\ UNCHANGED <<modules, packageJsonOk, ignoreSourceFiles, includeExtension, content,
                   original, exports, files>>

\* findExports({ packagePath, stats }), then getPackageName throws: the error is
\* logged and thrown again, the run ends
AbortRun_p1 ==
    /\ pc = "package"
    /\ ~packageJsonOk
    /\ exports' = findExports_p1(modules, <<>>)
    /\ stats' = [stats EXCEPT !.exportsFound = CountExports(exports'),
                              !.sourceFilesWithExports = Len(exports')]
    /\ pc' = "idle"
    /\ UNCHANGED <<treeVars, cliVars, scanVars>>
    /\ UNCHANGED <<modules, packageJsonOk, ignoreSourceFiles, includeExtension, content,
                   original, run, files, last, atRunStart>>

\* findExports({ packagePath, stats }), getPackageName and findImports of the package;
\* options.ignoreSourceFiles is not handed to findExports
ScanPackage_p1 ==
    /\ pc = "package"
    /\ packageJsonOk
    /\ exports' = findExports_p1(modules, <<>>)
    /\ files' = findImports(PackageName, TargetFile, content)
    /\ stats' = [stats EXCEPT !.exportsFound = CountExports(exports'),
                              !.sourceFilesWithExports = Len(exports'),
                              !.targetFilesFound = Len(files')]
    /\ pc' = "files"
    /\ UNCHANGED <<treeVars, cliVars, scanVars>>
    /\ UNCHANGED <<modules, packageJsonOk, ignoreSourceFiles, includeExtension, content,
                   original, run, last, atRunStart>>

\* one iteration of the loop over targetFiles
ProcessFile_p1 ==
    /\ pc = "files"
    /\ files # <<>>
    /\ \E r \in {updateImports_p1(content, Head(files), PackageName, exports,
                                  includeExtension)} :
          /\ content' = r.text
          /\ last' = [called |-> TRUE, before |-> content, modified |-> r.modified,
                      written |-> r.written, threw |-> r.threw, groups |-> r.groups,
                      warnings |-> r.warnings, exports |-> exports]
          /\ stats' = [stats EXCEPT
                         !.targetFilesProcessed = @ + 1,
                         !.importsMigrated = @ + r.migrated,
                         !.importsUpdated = IF r.modified THEN @ + 1 ELSE @,
                         !.noChangesNeeded = IF r.modified \/ r.threw THEN @ ELSE @ + 1,
                         !.warnings = @ \o r.warnings]
    /\ files' = Tail(files)
    /\ UNCHANGED <<treeVars, cliVars, scanVars>>
    /\ UNCHANGED <<modules, packageJsonOk, ignoreSourceFiles, includeExtension, original,
                   pc, run, exports, atRunStart>>

\* the loop over targetFiles has ended
FinishPackage_p1 ==
    /\ pc = "files"
    /\ files = <<>>
    /\ stats' = [stats EXCEPT !.sourcePackagesProcessed = @ + 1]
    /\ pc' = "summary"
    /\ UNCHANGED <<treeVars, cliVars, scanVars>>
    /\ UNCHANGED <<modules, packageJsonOk, ignoreSourceFiles, includeExtension, content,
                   original, run, exports, files, last, atRunStart>>

\* the migration summary is printed and the run returns
Summary_p1 ==
    /\ pc = "summary"
    /\ pc' = "idle"
    /\ UNCHANGED <<treeVars, cliVars, scanVars>>
    /\ UNCHANGED <<modules, packageJsonOk, ignoreSourceFiles, includeExtension, content,
                   original, run, exports, files, last, atRunStart, stats>>

NextP1 ==
    \/ StartRun_p1
    \/ AbortRun_p1
    \/ ScanPackage_p1
    \/ ProcessFile_p1
    \/ FinishPackage_p1
    \/ Summary_p1

SpecP1 == InitP1 /\ [][NextP1]_vars

----------------------------------------------------------------------------
(* Vocabulary of the claims *)

\* module m holds a direct declaration of name n (export const/function/enum/... n)
DirectlyDeclares(m, n) ==
    /\ m.parses
    /\ \E i \in 1..Len(m.body) :
          /\ m.body[i].type = "ExportNamedDeclaration"
          /\ m.body[i].source = NoSource
          /\ Contains(m.body[i].declaration.ids, n)

\* module m re-exports name n from an external (non-relative) specifier e
ReExportsFromExternal(m, n, e) ==
    /\ m.parses
    /\ \E i \in 1..Len(m.body) :
          /\ m.body[i].type = "ExportNamedDeclaration"
          /\ m.body[i].source = e
          /\ e # NoSource /\ ~StartsWithDot(e)
          /\ \E k \in 1..Len(m.body[i].specifiers) : m.body[i].specifiers[k].exported = n

\* path of an auxiliary module: a story, a test or a spec
IsAuxiliary(file) ==
    \/ IncludesThenDot(file, ".stories")
    \/ IncludesThenDot(file, ".test")
    \/ IncludesThenDot(file, ".spec")

\* the modules of the package as a set
ModuleSet == Range(modules)

\* m is the one non-auxiliary module of the package that directly declares n
SoleMainDeclarer(m, n) ==
    /\ m \in ModuleSet
    /\ DirectlyDeclares(m, n)
    /\ ~IsAuxiliary(m.file)
    /\ \A m2 \in ModuleSet : (DirectlyDeclares(m2, n) /\ ~IsAuxiliary(m2.file)) => m2 = m

\* the specifier of the direct path of a module of the package, as the options ask for it
TargetSpecifier(file) ==
    IF includeExtension
    THEN PackageName \o <<"/">> \o file
    ELSE PackageName \o <<"/">> \o SubSeq(file, 1, Len(file) - 1)

\* the bindings (specifiers) of the import declarations of a text whose source satisfies a test
ImportIndexes(text) == {i \in 1..Len(text.body) : text.body[i].type = "ImportDeclaration"}

\* text imports binding b (same kind, local and imported name) from specifier src
ImportsBindingFrom(text, b, src) ==
    \E i \in ImportIndexes(text) :
        /\ text.body[i].source = src
        /\ Contains(text.body[i].specifiers, b)

\* the named bindings the text imports from the bare package name
PackageBindings(text) ==
    {b \in UNION {Range(text.body[i].specifiers) :
                    i \in {j \in ImportIndexes(text) : text.body[j].source = PackageName}} :
        b.type = "ImportSpecifier"}

\* the named bindings of the first import declaration from the bare package name
FirstPackageBindings(text) ==
    LET idx == {j \in ImportIndexes(text) : text.body[j].source = PackageName}
    IN IF idx = {} THEN {}
       ELSE {b \in Range(text.body[CHOOSE i \in idx : \A j \in idx : i <= j].specifiers) :
                b.type = "ImportSpecifier"}

\* number of import declarations of the text with specifier src
DeclarationCount(text, src) ==
    Cardinality({i \in ImportIndexes(text) : text.body[i].source = src})

\* updateImports has been applied to the consumer file in the current run
Updated == last.called

----------------------------------------------------------------------------
(* C1 *)

\* C1 (as claimed): after the rewrite, every consumer binding that imports from the package
\* a name N directly declared in exactly one non-auxiliary module M (M not matched by an
\* ignore pattern) is imported from packageName + "/" + path(M), whatever barrels the
\* package holds and whatever the order of the modules.  Stated for the bindings of the
\* file's first import declaration from the package, so that it does not rest on C24.
C1_ResolvedToDeclaringModule ==
    (Updated /\ run = 1) =>
        \A b \in FirstPackageBindings(original) :
            \A m \in ModuleSet :
                (SoleMainDeclarer(m, b.imported)
                 /\ ~IsIgnoredSource(m.file, ignoreSourceFiles))
                => ImportsBindingFrom(content, b, TargetSpecifier(m.file))

----------------------------------------------------------------------------
(* C2 *)

\* the direct-path specifier the catalog of the last call resolves name n to, <<>> if none
ResolvedSpecifier(n) ==
    LET k == FindExportInfo(last.exports, n)
    IN IF k = 0 \/ last.exports[k].isIgnored THEN <<>>
       ELSE TargetSpecifier(last.exports[k].source)

\* C2 (as claimed): after the rewrite, the bindings of the whole file that resolve to the
\* same target specifier are all carried by one import declaration, the only one with that
\* specifier, also when they come from different original import declarations.
C2_OneDeclarationPerTarget ==
    (Updated /\ run = 1) =>
        \A b \in PackageBindings(original) :
            ResolvedSpecifier(b.imported) # <<>> =>
                /\ DeclarationCount(content, ResolvedSpecifier(b.imported)) = 1
                /\ ImportsBindingFrom(content, b, ResolvedSpecifier(b.imported))

----------------------------------------------------------------------------
(* C3 *)

\* C3 (as claimed): the second run on the same tree with the same options computes
\* modified = false for the consumer file, writes nothing and leaves its text as run 1 left it.
C3_SecondRunChangesNothing ==
    (Updated /\ run = 2) =>
        /\ ~last.modified
        /\ ~last.written
        /\ content = atRunStart

----------------------------------------------------------------------------
(* C4 *)

\* C4: the changed verdict of updateImports is true iff a binding was routed to a
\* resolved-target group; a file whose bindings all stay in the remainder is left as it was
\* and counted under "no changes needed", never under "imports updated".
C4_ChangedIffRouted ==
    Updated =>
        /\ last.modified <=> last.groups # <<>>
        /\ last.groups = <<>> =>
              /\ content = last.before
              /\ stats.importsUpdated = 0
              /\ stats.filesWithNoUpdates = 1
        /\ last.groups # <<>> =>
              /\ stats.importsUpdated = 1
              /\ stats.filesWithNoUpdates = 0

\* a file with named bindings from the package, none of them routed: reported unmodified
C4_Witness ==
    /\ Updated
    /\ FirstPackageBindings(last.before) # {}
    /\ last.groups = <<>>
    /\ ~last.modified
    /\ stats.filesWithNoUpdates = 1

----------------------------------------------------------------------------
(* C5 *)

\* C5: updateImports writes the consumer file only when its changed verdict is true; when
\* the verdict is false the on-disk text is exactly what it was before the call.
C5_WrittenOnlyWhenChanged ==
    Updated =>
        /\ last.written => last.modified
        /\ ~last.modified => content = last.before

\* a call whose verdict was false although the file imports from the package
C5_Witness ==
    /\ Updated
    /\ ~last.modified
    /\ ~last.written
    /\ PackageBindings(last.before) # {}
    /\ content = last.before

----------------------------------------------------------------------------
(* C6 *)

\* the external specifiers from which module m re-exports name n
ExternalSpecifiers(m, n) ==
    IF ~m.parses THEN {}
    ELSE {m.body[i].source :
            i \in {j \in 1..Len(m.body) :
                     /\ m.body[j].type = "ExportNamedDeclaration"
                     /\ m.body[j].source # NoSource
                     /\ (IncludesNodeModules(m.body[j].source)
                         \/ ~StartsWithDot(m.body[j].source))
                     /\ Contains(SpecifierNames(m.body[j].specifiers), n)}}

\* the specifiers of the import declarations of the text that carry binding b
SpecifiersOf(text, b) ==
    {text.body[i].source :
        i \in {j \in ImportIndexes(text) : Contains(text.body[j].specifiers, b)}}

\* C6 (as claimed): a consumer binding of a name N that a module of the package re-exports
\* from an external specifier E is, after the rewrite, imported from the package name or
\* from E, never from an internal path, also when N is declared in an internal module too.
C6_ExternalNeverInternal ==
    (Updated /\ run = 1) =>
        \A b \in PackageBindings(original) :
            \A m \in ModuleSet :
                \A e \in ExternalSpecifiers(m, b.imported) :
                    SpecifiersOf(content, b) \subseteq {PackageName, e}

----------------------------------------------------------------------------
(* C7 *)

\* module m lists name n in one of its export statements (declaration, specifier or the
\* name of a default-exported entity)
ListsName(m, n) ==
    /\ m.parses
    /\ \E i \in 1..Len(m.body) :
          \/ /\ m.body[i].type = "ExportNamedDeclaration"
             /\ \/ Contains(m.body[i].declaration.ids, n)
                \/ Contains(SpecifierNames(m.body[i].specifiers), n)
          \/ /\ m.body[i].type = "ExportDefaultDeclaration"
             /\ Contains(m.body[i].declaration.ids, n)

\* the modules of the package that list name n
Exporters(n) == {m \in ModuleSet : ListsName(m, n)}

\* the external specifiers the package re-exports name n from
ExternalsOf(n) == UNION {ExternalSpecifiers(m, n) : m \in ModuleSet}

\* the named bindings of name n in the import declarations of the text, whatever they
\* import from
BindingsOf(text, n) ==
    {b \in UNION {Range(text.body[i].specifiers) : i \in ImportIndexes(text)} :
        b.type = "ImportSpecifier" /\ b.imported = n}

\* the consumer imports from the package a name that the package only re-exports from an
\* external specifier
ImportsExternalName(text) ==
    \E b \in PackageBindings(text) :
        ExternalsOf(b.imported) # {} /\ Cardinality(Exporters(b.imported)) = 1

----------------------------------------------------------------------------
(* C8 *)

\* the warnings of the last call that name the file and the symbol
WarningsNaming(file, n) ==
    {i \in 1..Len(last.warnings) : last.warnings[i].file = file /\ last.warnings[i].name = n}

\* the catalog of the last call resolves name n to an entry that is not flagged isIgnored
ResolvesToModule(n) ==
    /\ FindExportInfo(last.exports, n) # 0
    /\ ~last.exports[FindExportInfo(last.exports, n)].isIgnored

\* C8 (as claimed): a named binding whose name no catalog entry lists stays, with its local
\* alias, in an import declaration from the package name, exactly one warning names the
\* consumer file and the symbol, and the changed verdict is true iff another binding that
\* the file imports from the package was resolved.
C8_UnresolvedKeptWithWarning ==
    (Updated /\ run = 1) =>
        \A b \in PackageBindings(original) :
            FindExportInfo(last.exports, b.imported) = 0 =>
                /\ SpecifiersOf(content, b) = {PackageName}
                /\ Cardinality(WarningsNaming(TargetFile, b.imported)) = 1
                /\ last.modified <=>
                      \E b2 \in PackageBindings(original) : ResolvesToModule(b2.imported)

----------------------------------------------------------------------------
(* C9 *)

\* the catalog of the last call holds name n of module file, flagged isIgnored
CatalogedIgnored(file, n) ==
    \E i \in 1..Len(last.exports) :
        /\ last.exports[i].source = file
        /\ Contains(last.exports[i].exports, n)
        /\ last.exports[i].isIgnored

DeclaredNames(m) ==
    IF ~m.parses THEN {}
    ELSE UNION {Range(getExportNames(m.body[i].declaration)) :
                  i \in {j \in 1..Len(m.body) : m.body[j].type = "ExportNamedDeclaration"}}

\* the entry exports.find returns for name n in the catalog of the last call is flagged
ResolvesToIgnored(n) ==
    /\ FindExportInfo(last.exports, n) # 0
    /\ last.exports[FindExportInfo(last.exports, n)].isIgnored

----------------------------------------------------------------------------
(* C10 *)

\* the auxiliary modules of the package that directly declare name n
AuxiliaryDeclarers(n) ==
    {m \in ModuleSet : DirectlyDeclares(m, n) /\ IsAuxiliary(m.file)}

----------------------------------------------------------------------------
(* C11 *)

\* position of a module path in the lexicographically sorted list of the paths of the
\* model ("src/a.stories.ts" < "src/a.ts" < "src/b.ts" < "src/bad.ts" < "src/c.ts" <
\* "src/index.ts" < "src/sub/index.ts", compared character by character)
PathRank(file) ==
    CASE file = <<"src/", "a", ".stories", ".ts">> -> 1
      [] file = <<"src/", "a", ".ts">> -> 2
      [] file = <<"src/", "b", ".ts">> -> 3
      [] file = <<"src/", "bad", ".ts">> -> 4
      [] file = <<"src/", "c", ".ts">> -> 5
      [] file = <<"src/", "index", ".ts">> -> 6
      [] file = <<"src/", "sub/", "index", ".ts">> -> 7

\* the modules in the opposite enumeration order
Reversed(allFiles) == [i \in 1..Len(allFiles) |-> allFiles[Len(allFiles) + 1 - i]]

\* the candidates of name n: the non-auxiliary, non-ignored modules directly declaring it
Candidates(n) ==
    {m \in ModuleSet : /\ DirectlyDeclares(m, n)
                       /\ ~IsAuxiliary(m.file)
                       /\ ~IsIgnoredSource(m.file, ignoreSourceFiles)}

\* name n has several candidates of equal preference and no other module lists it
SeveralCandidates(n) ==
    /\ Cardinality(Candidates(n)) > 1
    /\ \A m \in ModuleSet : m.parses => m \in Candidates(n)

\* the first candidate of n in sorted path order
FirstCandidate(n) ==
    CHOOSE m \in Candidates(n) : \A m2 \in Candidates(n) : PathRank(m.file) <= PathRank(m2.file)

\* the text updateImports gives the original file when the package is enumerated in the
\* opposite order
TextForReversedEnumeration ==
    updateImports(original, TargetFile, PackageName,
                  findExports(Reversed(modules), ignoreSourceFiles), includeExtension).text

\* C11 (as claimed): a name with several candidate declaring modules of equal preference
\* is imported from the first candidate in lexicographically sorted path order, and the
\* consumer text a run produces is the same when the file enumeration returns the modules
\* of the package in the opposite order.
C11_FirstInSortedOrder ==
    (Updated /\ run = 1) =>
        /\ \A b \in FirstPackageBindings(original) :
              SeveralCandidates(b.imported)
              => ImportsBindingFrom(content, b, TargetSpecifier(FirstCandidate(b.imported).file))
        /\ (\E b \in FirstPackageBindings(original) : SeveralCandidates(b.imported))
              => content = TextForReversedEnumeration

----------------------------------------------------------------------------
(* C12 *)

\* index of the first import declaration of the text from the bare package name, 0 if none
FirstPackageDeclaration(text) ==
    LET idx == {j \in ImportIndexes(text) : text.body[j].source = PackageName}
    IN IF idx = {} THEN 0 ELSE CHOOSE i \in idx : \A j \in idx : i <= j

\* the specifiers of that declaration, in source order
FirstPackageSpecifiers(text) ==
    IF FirstPackageDeclaration(text) = 0 THEN <<>>
    ELSE text.body[FirstPackageDeclaration(text)].specifiers

\* the statements of the rewritten file that stand where the first import declaration
\* from the package stood
Replacement ==
    SubSeq(content.body, FirstPackageDeclaration(original),
           FirstPackageDeclaration(original) + Len(content.body) - Len(original.body))

\* the target specifier of an original binding, <<>> for one that stays in the remainder
TargetOf(specifier) ==
    IF specifier.type = "ImportSpecifier" THEN ResolvedSpecifier(specifier.imported) ELSE <<>>

\* position of the first original binding routed to target t
FirstEncounter(specifiers, t) ==
    CHOOSE k \in 1..Len(specifiers) :
        /\ TargetOf(specifiers[k]) = t
        /\ \A k2 \in 1..Len(specifiers) : TargetOf(specifiers[k2]) = t => k <= k2

\* the targets the original bindings are routed to
TargetsOf(specifiers) ==
    {TargetOf(specifiers[k]) : k \in 1..Len(specifiers)} \ {<<>>}

----------------------------------------------------------------------------
(* C13 *)

\* module m exports the entity named n as its default export
DefaultExports(m, n) ==
    /\ m.parses
    /\ \E i \in 1..Len(m.body) :
          /\ m.body[i].type = "ExportDefaultDeclaration"
          /\ Len(m.body[i].declaration.ids) > 0
          /\ m.body[i].declaration.ids[1] = n

\* module m exports n by name: a declaration or an export specifier
ExportsByName(m, n) ==
    /\ m.parses
    /\ \E i \in 1..Len(m.body) :
          /\ m.body[i].type = "ExportNamedDeclaration"
          /\ \/ Contains(m.body[i].declaration.ids, n)
             \/ Contains(SpecifierNames(m.body[i].specifiers), n)

\* n is exported by m as its default export and no module of the package exports it by name
DefaultOnly(m, n) ==
    /\ m \in ModuleSet
    /\ DefaultExports(m, n)
    /\ \A m2 \in ModuleSet : ~ExportsByName(m2, n)

\* C13 (as claimed): a consumer binding { N } whose name N a module exports only as its
\* default export (class, function or identifier) is never imported by name from that
\* module's direct path; it stays in a declaration importing from the package name.
C13_DefaultOnlyKept ==
    (Updated /\ run = 1) =>
        \A b \in FirstPackageBindings(original) :
            \A m \in ModuleSet :
                (DefaultOnly(m, b.imported) /\ BindingsOf(original, b.imported) = {b})
                => /\ ~ImportsBindingFrom(content, b, TargetSpecifier(m.file))
                   /\ ImportsBindingFrom(content, b, PackageName)

----------------------------------------------------------------------------
(* C14 *)

\* a subpath specifier of the package: packageName + "/" + subpath
SubpathName == PackageName \o <<"/", "sub">>

\* the text with every import from the subpath turned into an import from the bare name
FromBareName(text) ==
    [text EXCEPT !.body =
        [i \in 1..Len(text.body) |->
            IF text.body[i].type = "ImportDeclaration" /\ text.body[i].source = SubpathName
            THEN [text.body[i] EXCEPT !.source = PackageName]
            ELSE text.body[i]]]

\* the named bindings the text imports from the subpath
SubpathBindings(text) ==
    {b \in UNION {Range(text.body[i].specifiers) :
                    i \in {j \in ImportIndexes(text) : text.body[j].source = SubpathName}} :
        b.type = "ImportSpecifier"}

\* what updateImports gives for the original file with its subpath imports written as
\* imports from the bare package name
PlannedFromBareName ==
    updateImports_p1(FromBareName(original), TargetFile, PackageName, last.exports,
                     includeExtension)

----------------------------------------------------------------------------
(* C16 *)

\* the extensions the option --no-extension removes
KnownExtensions == {".js", ".jsx", ".ts", ".tsx", ".mjs", ".cjs"}

\* index of the catalog entry the last call resolved name n to, 0 if none or if ignored
ResolvedEntry(n) ==
    IF ResolvesToModule(n) THEN FindExportInfo(last.exports, n) ELSE 0

\* the specifier text is packageName + "/" + p, in full or without p's final extension
IsPathOf(src, p, withExtension) ==
    IF withExtension
    THEN src = PackageName \o <<"/">> \o p
    ELSE /\ p[Len(p)] \in KnownExtensions
         /\ src \o <<p[Len(p)]>> = PackageName \o <<"/">> \o p

\* C16: a binding resolved to the declaring module path p is imported from
\* packageName + "/" + p when includeExtension is true and from the same text without the
\* trailing .js/.jsx/.ts/.tsx/.mjs/.cjs when it is false; no other part of p is altered.
C16_TargetSpecifierFormat ==
    (Updated /\ run = 1) =>
        \A b \in FirstPackageBindings(original) :
            ResolvedEntry(b.imported) # 0 =>
                \E i \in ImportIndexes(content) :
                    /\ Contains(content.body[i].specifiers, b)
                    /\ IsPathOf(content.body[i].source,
                                last.exports[ResolvedEntry(b.imported)].source,
                                includeExtension)

\* with includeExtension false a binding went to "@test/source-lib/src/a.stories": only
\* the final ".ts" of src/a.stories.ts is gone
C16_Witness ==
    /\ Updated /\ run = 1 /\ ~includeExtension
    /\ \E b \in FirstPackageBindings(original) :
          /\ ResolvedEntry(b.imported) # 0
          /\ ImportsBindingFrom(content, b,
                                PackageName \o <<"/", "src/", "a", ".stories">>)

----------------------------------------------------------------------------
(* C17 *)

\* the catalog entries recorded for the module with path file
EntriesOf(catalog, file) == {i \in 1..Len(catalog) : catalog[i].source = file}

\* some module of the package cannot be parsed
HasUnparsableModule == \E m \in ModuleSet : ~m.parses

\* C17: when a module of the package cannot be parsed, findExports still returns a
\* catalog: the unparsable module has no entry in it, and every name another module
\* declares, before or after the unparsable one in the enumeration, has an entry for
\* that module.
C17_ParseFailureIsolated ==
    (pc = "files" /\ HasUnparsableModule) =>
        \A m \in ModuleSet :
            /\ ~m.parses => EntriesOf(exports, m.file) = {}
            /\ m.parses =>
                  \A n \in DeclaredNames(m) :
                      \E i \in EntriesOf(exports, m.file) : Contains(exports[i].exports, n)

\* the unparsable module was enumerated first and the catalog holds the names of the
\* module after it
C17_Witness ==
    /\ pc = "files"
    /\ Len(modules) = 2
    /\ ~modules[1].parses
    /\ DeclaredNames(modules[2]) # {}
    /\ \A n \in DeclaredNames(modules[2]) :
          \E i \in EntriesOf(exports, modules[2].file) : Contains(exports[i].exports, n)

----------------------------------------------------------------------------
(* migrateBarrelImports of src/src/migrate-barrel-imports.ts over several source    *)
(* packages and a target tree of several files (specification SpecTree)            *)

Min(a, b) == IF a <= b THEN a ELSE b

\* name of the second and of the third source package
SecondPackageName == <<"@test/other-lib">>
ThirdPackageName == <<"@test/third-lib">>

\* the source packages options.sourcePath can match: directory, name in package.json, modules
PackageDirs ==
    << [dir |-> <<"packages/", "source-lib">>, name |-> PackageName,
        allFiles |-> << [file |-> <<"src/", "a", ".ts">>, parses |-> TRUE,
                         body |-> <<ExportDecl(Variable, <<"a">>)>>] >>],
       [dir |-> <<"packages/", "other-lib">>, name |-> SecondPackageName,
        allFiles |-> << [file |-> <<"src/", "b", ".ts">>, parses |-> TRUE,
                         body |-> <<ExportDecl("TSEnumDeclaration", <<"b">>),
                                    ExportDecl("TSEnumDeclaration", <<"c">>)>>] >>],
       [dir |-> <<"packages/", "third-lib">>, name |-> ThirdPackageName,
        allFiles |-> << [file |-> <<"src/", "c", ".ts">>, parses |-> TRUE,
                         body |-> <<ExportDecl("FunctionDeclaration", <<"a">>)>>] >>] >>

\* what a package directory holds as package.json: a file with a name, a file without a
\* name, a file that cannot be read or is not JSON, no file
PackageJsonStates == {"ok", "noname", "invalid", "absent"}

\* the values of sourceDirs: the first n directories, each with any package.json state
SourceDirMenu ==
    UNION { { [d \in 1..n |-> [dir |-> PackageDirs[d].dir, name |-> PackageDirs[d].name,
                               allFiles |-> PackageDirs[d].allFiles,
                               packageJson |-> st[d]]] :
                st \in [1..n -> PackageJsonStates] }
            : n \in 1..Min(MaxPackages, Len(PackageDirs)) }

\* the paths of the files of the target tree
TargetPaths ==
    << TargetFile,
       <<"target-app/", "src/", "app", ".stories", ".ts">>,
       <<"target-app/", "src/", "util", ".ts">>,
       <<"target-app/", "src/", "main", ".ts">> >>

\* the texts a file of the target tree can hold
TreeTexts ==
    { Text("src", <<importDeclaration(<<ImportSpecifier("a", "a")>>, PackageName),
                    OtherStatement>>),
      Text("src", <<importDeclaration(<<ImportSpecifier("a", "a")>>, PackageName),
                    importDeclaration(<<ImportSpecifier("z", "a"), ImportSpecifier("s", "s"),
                                        ImportSpecifier("t", "t")>>, PackageName),
                    OtherStatement>>),
      Text("src", <<importDeclaration(<<ImportSpecifier("a", "a")>>, PackageName),
                    importDeclaration(<<ImportSpecifier("b", "b"), ImportSpecifier("c", "c")>>,
                                      SecondPackageName),
                    OtherStatement>>),
      Text("src", <<importDeclaration(<<ImportSpecifier("b", "b"), ImportSpecifier("c", "c")>>,
                                      SecondPackageName),
                    OtherStatement>>),
      Text("src", <<importDeclaration(<<ImportSpecifier("sa", "a")>>,
                                      PackageName \o <<"/", "sub">>),
                    OtherStatement>>),
      Text("src", <<importDeclaration(<<ImportSpecifier("xa", "a")>>, OtherPackageName),
                    OtherStatement>>),
      Text("bad", <<importDeclaration(<<ImportSpecifier("a", "a")>>, PackageName),
                    OtherStatement>>),
      Text("src", <<OtherStatement>>) }

\* the target trees: the first n paths, each with any of the texts
TargetTrees ==
    UNION { { [i \in 1..n |-> [file |-> TargetPaths[i], text |-> t[i]]] :
                t \in [1..n -> TreeTexts] }
            : n \in 1..Min(MaxFiles, Len(TargetPaths)) }

\* the values of options.ignoreTargetFiles
IgnoreTargetMenu == {<<>>, <<"**/*.stories.*">>, <<"**/b.*", "**/*.stories.*">>}

\* an entry of the history: a step of the package loop (kind "package") or of the file
\* loop (kind "file") for the package in directory dir
LogEntry(kind, dir, file, outcome, before, after) ==
    [kind |-> kind, dir |-> dir, file |-> file, outcome |-> outcome,
     before |-> before, after |-> after]

NoText == Text("src", <<>>)

PackageEntry(dir, outcome) == LogEntry("package", dir, <<>>, outcome, NoText, NoText)

\* the state before migrateBarrelImports is called on a monorepo
InitTree ==
    /\ NoCli
    /\ NoScan
    /\ sourceDirs \in SourceDirMenu
    /\ tree \in TargetTrees
    /\ treeAtStart = tree
    /\ ignoreTargetFiles \in IgnoreTargetMenu
    /\ ignoreSourceFiles = <<>>
    /\ includeExtension = TRUE
    /\ packageJsonPaths = <<>>
    /\ packageInfo = [name |-> Undefined]
    /\ log = <<>>
    /\ pc = "idle"
    /\ run = 0
    /\ exports = <<>>
    /\ files = <<>>
    /\ stats = NoStats
    /\ modules = <<>>
    /\ packageJsonOk = TRUE
    /\ content = NoText
    /\ original = NoText
    /\ atRunStart = NoText
    /\ last = NoCall

\* fs.promises.access(packageJsonPath) succeeds
HasPackageJson(sourceDir) == sourceDir.packageJson # "absent"

\* the loop over sourceDirs that fills packageJsonPaths
FindPackageJsonPaths(dirs) == SelectSeq(dirs, HasPackageJson)

\* getPackageInfo throws: readFileSync or JSON.parse fails
PackageInfoThrows(sourceDir) == sourceDir.packageJson = "invalid"

\* getPackageInfo: the parsed package.json, of which the run reads the name
getPackageInfo(sourceDir) ==
    [name |-> IF sourceDir.packageJson = "ok" THEN sourceDir.name ELSE Undefined]

\* readFileSync(file, 'utf-8') for a file of the tree
ReadFile(targetTree, file) ==
    targetTree[CHOOSE i \in 1..Len(targetTree) : targetTree[i].file = file].text

\* the tree after writeFileSync(file, text)
WriteFile(targetTree, file, text) ==
    [i \in 1..Len(targetTree) |->
        IF targetTree[i].file = file THEN [file |-> file, text |-> text] ELSE targetTree[i]]

\* the path of a file of the target tree relative to a package directory that holds it
RelativeTo(dir, file) == SubSeq(file, Len(dir) + 2, Len(file))

\* the file of the target tree lies inside the package directory
IsInside(dir, file) == StartsWith(file, dir \o <<"/">>)

\* the files fast-glob lists under packagePath: the modules of the package and, when the
\* package lies inside the target directory, those files of the target tree that lie in
\* it, with the text they have when findExports reads them
PackageModules(sourceDir, targetTree) ==
    LET F[i \in 0..Len(targetTree)] ==
          IF i = 0 THEN sourceDir.allFiles
          ELSE IF IsInside(sourceDir.dir, targetTree[i].file)
          THEN Append(F[i - 1],
                      [file |-> RelativeTo(sourceDir.dir, targetTree[i].file),
                       parses |-> ~ParseThrows(targetTree[i].text),
                       body |-> targetTree[i].text.body])
          ELSE F[i - 1]
    IN F[Len(targetTree)]

\* a test that asks every pattern to match: ignoreTargetFiles.every(...)
IsIgnoredTarget_Every(file, patterns) == \A i \in 1..Len(patterns) : isMatch(file, patterns[i])

\* ignoreTargetFiles.some((pattern) => micromatch.isMatch(relativeFile, pattern))
IsIgnoredTarget(file, patterns) == \E i \in 1..Len(patterns) : isMatch(file, patterns[i])

\* what can go wrong in one iteration of the file loop: nothing; readFileSync of the file
\* throws in migrateBarrelImports; parse, generate or writeFileSync throws in updateImports
Faults == {"none", "read", "parse", "generate", "write"}

\* generate and writeFileSync are reached only when the plan set modified
FaultPossible(fault, r) == fault \in {"generate", "write"} => (r.modified /\ ~r.threw)

\* an updateImports that writes in a finally block: what it has when parse or generate
\* throws is an empty program
TextAfter_WrittenInFinally(text, r, fault) ==
    CASE fault = "none" -> r.text
      [] fault \in {"parse", "generate"} -> generate(<<>>)
      [] OTHER -> text

\* the file's text after the iteration: the one updateImports wrote, or the one it had
\* when a step threw.  writeFileSync is the last statement of the try and the only write;
\* a writeFileSync that throws is one that could not open the file and has written
\* nothing (a write the operating system tears after opening is not modelled)
TextAfter(text, r, fault) == IF fault = "none" THEN r.text ELSE text

\* the outcome of the iteration as the history names it
FileOutcome(text, r, fault) ==
    IF fault # "none" THEN fault
    ELSE IF r.text # text THEN "updated" ELSE "unchanged"

\* counters with filesProcessed++ in a finally block: a file whose read threw is counted
\* as processed too
FileStats_ProcessedInFinally(st, text, r, fault) ==
    CASE fault = "read" -> [st EXCEPT !.errors = @ + 1, !.filesProcessed = @ + 1]
      [] fault \in {"parse", "generate", "write"} ->
            [st EXCEPT !.errors = @ + 1,
                       !.filesWithNoUpdates = @ + 1,
                       !.filesProcessed = @ + 1]
      [] OTHER ->
            [st EXCEPT !.errors = IF r.threw THEN @ + 1 ELSE @,
                       !.importsUpdated = IF r.text # text THEN @ + 1 ELSE @,
                       !.filesWithNoUpdates = IF r.text # text THEN @ ELSE @ + 1,
                       !.filesProcessed = @ + 1]

\* the counters after one iteration of the file loop
FileStats(st, text, r, fault) ==
    CASE fault = "read" -> [st EXCEPT !.errors = @ + 1]
      [] fault = "parse" ->
            [st EXCEPT !.errors = @ + 1,
                       !.filesWithNoUpdates = @ + 1,
                       !.filesProcessed = @ + 1]
      [] fault \in {"generate", "write"} ->
            [st EXCEPT !.errors = @ + 1,
                       !.warnings = @ \o r.warnings,
                       !.filesWithNoUpdates = @ + 1,
                       !.filesProcessed = @ + 1]
      [] OTHER ->
            [st EXCEPT !.errors = IF r.threw THEN @ + 1 ELSE @,
                       !.warnings = @ \o r.warnings,
                       !.importsUpdated = IF r.text # text THEN @ + 1 ELSE @,
                       !.filesWithNoUpdates = IF r.text # text THEN @ ELSE @ + 1,
                       !.filesProcessed = @ + 1]

\* a file loop that an error ends
NextFiles_StopOnError(remaining, fault) ==
    IF fault = "none" THEN Tail(remaining) ELSE <<>>

\* for (const file of files): the catch is inside the loop, the next file follows
NextFiles(remaining, fault) == Tail(remaining)

\* a package loop that the catch ends: a package that fails takes the next one with it
NextPackages_DropNext(remaining) ==
    IF Len(remaining) > 1 THEN Tail(Tail(remaining)) ELSE Tail(remaining)

\* for (const packageJsonPath of packageJsonPaths): the catch is inside the loop
NextPackages(remaining) == Tail(remaining)

\* migrateBarrelImports starts: the statistics are zeroed, the directories are matched
\* and those with a package.json become the packages to process
StartRunTree ==
    /\ pc = "idle"
    /\ run = 0
    /\ run' = 1
    /\ stats' = NoStats
    /\ packageJsonPaths' = FindPackageJsonPaths(sourceDirs)
    /\ pc' = "packages"
    /\ UNCHANGED <<packageVars, cliVars, scanVars>>
    /\ UNCHANGED <<sourceDirs, tree, treeAtStart, ignoreTargetFiles, packageInfo, log,
                   ignoreSourceFiles, includeExtension, exports, files>>

\* getPackageInfo throws for the next package: the catch of the package loop counts it
SkipPackageTree ==
    /\ pc = "packages"
    /\ packageJsonPaths # <<>>
    /\ PackageInfoThrows(Head(packageJsonPaths))
    /\ stats' = [stats EXCEPT !.packagesSkipped = @ + 1]
    /\ log' = Append(log, PackageEntry(Head(packageJsonPaths).dir, "skipped"))
    /\ packageJsonPaths' = NextPackages(packageJsonPaths)
    /\ UNCHANGED <<packageVars, cliVars, scanVars>>
    /\ UNCHANGED <<sourceDirs, tree, treeAtStart, ignoreTargetFiles, packageInfo,
                   ignoreSourceFiles, includeExtension, exports, files, pc, run>>

\* getPackageInfo, findExports and findImports for the next package
ScanPackageTree ==
    /\ pc = "packages"
    /\ packageJsonPaths # <<>>
    /\ ~PackageInfoThrows(Head(packageJsonPaths))
    /\ packageInfo' = getPackageInfo(Head(packageJsonPaths))
    /\ exports' = findExports(PackageModules(Head(packageJsonPaths), tree), ignoreSourceFiles)
    /\ files' = findImportsIn(tree, packageInfo'.name)
    /\ stats' = [stats EXCEPT !.totalFiles = @ + Len(files')]
    /\ log' = Append(log, PackageEntry(Head(packageJsonPaths).dir, "scanned"))
    /\ pc' = "files"
    /\ UNCHANGED <<packageVars, cliVars, scanVars>>
    /\ UNCHANGED <<sourceDirs, tree, treeAtStart, ignoreTargetFiles, packageJsonPaths,
                   ignoreSourceFiles, includeExtension, run>>

\* the next file matches options.ignoreTargetFiles: counted and left alone
SkipFileTree ==
    /\ pc = "files"
    /\ files # <<>>
    /\ IsIgnoredTarget(Head(files), ignoreTargetFiles)
    /\ stats' = [stats EXCEPT !.filesSkipped = @ + 1]
    /\ log' = Append(log, LogEntry("file", Head(packageJsonPaths).dir, Head(files), "ignored",
                                   ReadFile(tree, Head(files)), ReadFile(tree, Head(files))))
    /\ files' = Tail(files)
    /\ UNCHANGED <<packageVars, cliVars, scanVars>>
    /\ UNCHANGED <<sourceDirs, tree, treeAtStart, ignoreTargetFiles, packageJsonPaths,
                   packageInfo, ignoreSourceFiles, includeExtension, exports, pc, run>>

\* one iteration of the file loop for a file that is not ignored: the file is read,
\* updateImports plans and writes it, the file is read again and counted; each of these
\* may fail
ProcessFileTree ==
    /\ pc = "files"
    /\ files # <<>>
    /\ ~IsIgnoredTarget(Head(files), ignoreTargetFiles)
    /\ \E fault \in Faults :
       \E text \in {ReadFile(tree, Head(files))} :
       \E r \in {updateImports(text, Head(files), packageInfo.name, exports,
                               includeExtension)} :
          /\ FaultPossible(fault, r)
          /\ tree' = WriteFile(tree, Head(files), TextAfter(text, r, fault))
          /\ stats' = FileStats(stats, text, r, fault)
          /\ log' = Append(log, LogEntry("file", Head(packageJsonPaths).dir, Head(files),
                                         FileOutcome(text, r, fault),
                                         text, TextAfter(text, r, fault)))
          /\ files' = NextFiles(files, fault)
    /\ UNCHANGED <<packageVars, cliVars, scanVars>>
    /\ UNCHANGED <<sourceDirs, treeAtStart, ignoreTargetFiles, packageJsonPaths,
                   packageInfo, ignoreSourceFiles, includeExtension, exports, pc, run>>

\* the file loop of the package has ended
FinishPackageTree ==
    /\ pc = "files"
    /\ files = <<>>
    /\ stats' = [stats EXCEPT !.packagesProcessed = @ + 1]
    /\ log' = Append(log, PackageEntry(Head(packageJsonPaths).dir, "processed"))
    /\ packageJsonPaths' = NextPackages(packageJsonPaths)
    /\ exports' = <<>>
    /\ pc' = "packages"
    /\ UNCHANGED <<packageVars, cliVars, scanVars>>
    /\ UNCHANGED <<sourceDirs, tree, treeAtStart, ignoreTargetFiles, packageInfo,
                   ignoreSourceFiles, includeExtension, files, run>>

\* the package loop has ended: the summary is printed and the run returns
SummaryTree ==
    /\ pc = "packages"
    /\ packageJsonPaths = <<>>
    /\ pc' = "done"
    /\ UNCHANGED <<packageVars, cliVars, scanVars>>
    /\ UNCHANGED <<sourceDirs, tree, treeAtStart, ignoreTargetFiles, packageJsonPaths,
                   packageInfo, log, ignoreSourceFiles, includeExtension, exports, files,
                   run, stats>>

NextTree ==
    \/ StartRunTree
    \/ SkipPackageTree
    \/ ScanPackageTree
    \/ SkipFileTree
    \/ ProcessFileTree
    \/ FinishPackageTree
    \/ SummaryTree

SpecTree == InitTree /\ [][NextTree]_vars

\* a run of migrateBarrelImports is one thread of control: each loop step that can be
\* taken is taken (every awaited call resolves or rejects)
SpecTreeFair == InitTree /\ [][NextTree]_vars /\ WF_vars(NextTree)

\* a statement of a module that declares and exports Form
ExportForm == ExportDecl(Variable, <<"Form">>)

\* paths of files of the target tree that lie inside the source packages (the source
\* packages are inside the target directory)
NestedPaths ==
    << <<"packages/", "other-lib", "/", "src/", "form", ".ts">>,
       <<"packages/", "source-lib", "/", "src/", "b", ".ts">> >>

\* the texts such a file can hold: imports from the barrels and exports of its own
NestedTexts ==
    { Text("src", <<importDeclaration(<<ImportSpecifier("a", "a")>>, PackageName),
                    ExportForm>>),
      Text("src", <<importDeclaration(<<ImportSpecifier("a", "a")>>, PackageName),
                    importDeclaration(<<ImportSpecifier("b", "b"), ImportSpecifier("c", "c")>>,
                                      SecondPackageName),
                    ExportForm>>),
      Text("src", <<importDeclaration(<<ImportSpecifier("b", "b")>>, SecondPackageName),
                    ExportSpecifiers(<<"b">>, NoSource),
                    ExportDefault("FunctionDeclaration", <<"f">>)>>),
      Text("src", <<importDeclaration(<<ImportSpecifier("a", "a"), ImportSpecifier("u", "u")>>,
                                      PackageName),
                    ExportSpecifiers(<<"s">>, <<"external-package">>),
                    OtherStatement>>),
      Text("bad", <<importDeclaration(<<ImportSpecifier("a", "a")>>, PackageName),
                    ExportForm>>) }

\* the target trees whose files lie inside the source packages
NestedTrees ==
    UNION { { [i \in 1..n |-> [file |-> NestedPaths[i], text |-> t[i]]] :
                t \in [1..n -> NestedTexts] }
            : n \in 1..Min(MaxFiles, Len(NestedPaths)) }

\* the state before migrateBarrelImports is called on a monorepo whose source packages
\* lie inside the target directory
InitNested ==
    /\ NoCli
    /\ NoScan
    /\ sourceDirs \in SourceDirMenu
    /\ tree \in NestedTrees
    /\ treeAtStart = tree
    /\ ignoreTargetFiles \in IgnoreTargetMenu
    /\ ignoreSourceFiles = <<>>
    /\ includeExtension = TRUE
    /\ packageJsonPaths = <<>>
    /\ packageInfo = [name |-> Undefined]
    /\ log = <<>>
    /\ pc = "idle"
    /\ run = 0
    /\ exports = <<>>
    /\ files = <<>>
    /\ stats = NoStats
    /\ modules = <<>>
    /\ packageJsonOk = TRUE
    /\ content = NoText
    /\ original = NoText
    /\ atRunStart = NoText
    /\ last = NoCall

SpecNested == InitNested /\ [][NextTree]_vars

----------------------------------------------------------------------------
(* C15 *)

\* the import declarations of a text whose specifier is name or starts with name + "/"
QualifyingImports(text, name) ==
    {k \in 1..Len(text.body) :
        /\ text.body[k].type = "ImportDeclaration"
        /\ \/ text.body[k].source = name
           \/ StartsWith(text.body[k].source, name \o <<"/">>)}

\* the files of the tree that parse and hold a qualifying import declaration
Importers(targetTree, name) ==
    {targetTree[i].file : i \in {j \in 1..Len(targetTree) :
                                    /\ targetTree[j].text.fmt # "bad"
                                    /\ QualifyingImports(targetTree[j].text, name) # {}}}

\* findImports has just returned for a package that has a name
JustScanned ==
    /\ pc = "files"
    /\ log # <<>>
    /\ log[Len(log)].kind = "package"
    /\ packageInfo.name # Undefined

\* C15: findImports returns exactly the parsable files of the target tree that hold at
\* least one import declaration whose specifier is the package name or starts with the
\* package name and "/", each of them once.
C15_ImportersEachOnce ==
    JustScanned =>
        /\ Range(files) = Importers(tree, packageInfo.name)
        /\ \A j, k \in 1..Len(files) : files[j] = files[k] => j = k

\* a tree of two files: one with two qualifying declarations, returned once, and one that
\* is not returned
C15_Witness ==
    /\ JustScanned
    /\ Len(tree) = 2
    /\ Len(files) = 1
    /\ Cardinality(QualifyingImports(ReadFile(tree, files[1]), packageInfo.name)) = 2

----------------------------------------------------------------------------
(* C18 *)

\* the selected package roots whose package name cannot be read
WithoutName == {d \in 1..Len(sourceDirs) : sourceDirs[d].packageJson # "ok"}

\* the steps of the file loop made for the package in directory dir
FileSteps(dir) == {i \in 1..Len(log) : log[i].kind = "file" /\ log[i].dir = dir}

\* the package loop went through the file loop of the package in directory dir
Processed(dir) ==
    \E i \in 1..Len(log) :
        log[i].kind = "package" /\ log[i].dir = dir /\ log[i].outcome = "processed"

\* C18 (as claimed): when the run has ended, for every selected package root whose name
\* cannot be read (package.json absent, unreadable, not JSON, or without a name) no
\* consumer file was rewritten for that package, each such package is counted in
\* packagesSkipped, and every package with a readable name has been processed.
C18_NamelessPackagesSkipped ==
    pc = "done" =>
        /\ \A d \in WithoutName :
              \A i \in FileSteps(sourceDirs[d].dir) : log[i].after = log[i].before
        /\ stats.packagesSkipped = Cardinality(WithoutName)
        /\ \A d \in 1..Len(sourceDirs) :
              sourceDirs[d].packageJson = "ok" => Processed(sourceDirs[d].dir)

----------------------------------------------------------------------------
(* C19 *)

\* the outcomes of a step of the file loop in which reading, parsing, generating or
\* writing failed
Failures == {"read", "parse", "generate", "write"}

\* the steps of the file loop that failed
FailedSteps == {i \in 1..Len(log) : log[i].kind = "file" /\ log[i].outcome \in Failures}

\* the package loop has reached the package in directory dir and left it again
Left(dir) ==
    \E i \in 1..Len(log) :
        log[i].kind = "package" /\ log[i].dir = dir /\ log[i].outcome \in {"processed", "skipped"}

\* C19: each failure to read, parse, generate or write a consumer file adds one to the error
\* counter, and when the run has ended every file that imports from a processed package
\* has had its step of the file loop, and every package with a package.json its turn,
\* whatever failed before.
C19_FailureIsolated ==
    /\ pc # "idle" => stats.errors = Cardinality(FailedSteps)
    /\ pc = "done" =>
          \A d \in 1..Len(sourceDirs) :
              /\ HasPackageJson(sourceDirs[d]) => Left(sourceDirs[d].dir)
              /\ sourceDirs[d].packageJson = "ok" =>
                    \A f \in Importers(treeAtStart, sourceDirs[d].name) :
                        \E i \in FileSteps(sourceDirs[d].dir) : log[i].file = f

\* a step of the file loop failed, a later file of the same package was updated and a
\* later package was processed
C19_Witness ==
    /\ pc = "done"
    /\ stats.errors = 1
    /\ \E i, j, k \in 1..Len(log) :
          /\ i < j /\ j < k
          /\ i \in FailedSteps
          /\ log[j].kind = "file" /\ log[j].dir = log[i].dir /\ log[j].outcome = "updated"
          /\ log[k].kind = "package" /\ log[k].dir # log[i].dir /\ log[k].outcome = "processed"

----------------------------------------------------------------------------
(* C20 *)

\* the text a completely planned rewrite for the package of sourceDir gives a file
RewrittenFor(text, file, sourceDir) ==
    updateImports(text, file, getPackageInfo(sourceDir).name,
                  findExports(sourceDir.allFiles, ignoreSourceFiles), includeExtension).text

\* the texts a file can hold after complete rewrites for some of the first k packages,
\* applied in the order of the package loop
CompleteTexts(text, file, k) ==
    LET S[j \in 0..k] ==
          IF j = 0 THEN {text}
          ELSE S[j - 1] \cup {RewrittenFor(t, file, sourceDirs[j]) : t \in S[j - 1]}
    IN S[k]

\* the statements of a text that are not import declarations, in their order
IsNotImport(node) == node.type # "ImportDeclaration"

OtherStatements(text) == SelectSeq(text.body, IsNotImport)

\* the bindings of all import declarations of a text
AllBindings(text) == UNION {Range(text.body[i].specifiers) : i \in ImportIndexes(text)}

----------------------------------------------------------------------------
(* C21 *)

\* the specifier of an import declaration qualifies for the package called name: it is
\* the name, or the name followed by "/"
Qualifies(node, name) ==
    /\ node.type = "ImportDeclaration"
    /\ \/ node.source = name
       \/ StartsWith(node.source, name \o <<"/">>)

\* the statements of a text that the rewrite pass for the package has to leave alone: the
\* import declarations of other packages and the statements that are no imports, in order
Foreign(text, name) ==
    LET Keep(node) == ~Qualifies(node, name)
    IN SelectSeq(text.body, Keep)

\* sequence s occurs in sequence t, its elements unchanged and in the same relative order
IsSubsequence(s, t) ==
    \E f \in [1..Len(s) -> 1..Len(t)] :
        /\ \A i \in 1..Len(s) : t[f[i]] = s[i]
        /\ \A i, j \in 1..Len(s) : i < j => f[i] < f[j]

\* the rewrite pass for the package took the text from before to after
FrameKept(before, after, name) == IsSubsequence(Foreign(before, name), after.body)

\* the index of the directory dir in sourceDirs
DirIndex(dir) == CHOOSE d \in 1..Len(sourceDirs) : sourceDirs[d].dir = dir

\* the file steps of a run over a tree that were made for a package with a name
NamedFileSteps ==
    {i \in 1..Len(log) : /\ log[i].kind = "file"
                         /\ sourceDirs[DirIndex(log[i].dir)].packageJson = "ok"}

\* the packages of the run that were processed, no step of their file loop failing or
\* being ignored
CleanlyProcessed ==
    {d \in 1..Len(sourceDirs) :
        /\ sourceDirs[d].packageJson = "ok"
        /\ Processed(sourceDirs[d].dir)
        /\ \A i \in FileSteps(sourceDirs[d].dir) : log[i].outcome \in {"updated", "unchanged"}}

\* C21 (as claimed): the rewrite pass for package P leaves the import declarations whose
\* specifier does not qualify for P (neither P's name nor P's name followed by "/", so
\* also those of a package whose name has P's name as a prefix) and all statements that are
\* no imports unchanged and in their relative order; and after a run over several
\* packages a file importing from several of them by their bare names has no import
\* declaration from the bare name of any cleanly processed package that declares the names.
C21_OnlyQualifyingReplaced ==
    /\ Updated => FrameKept(last.before, content, PackageName)
    /\ \A i \in NamedFileSteps :
          FrameKept(log[i].before, log[i].after, sourceDirs[DirIndex(log[i].dir)].name)
    /\ pc = "done" =>
          \A i \in 1..Len(tree) :
              Cardinality({d \in CleanlyProcessed :
                             QualifyingImports(treeAtStart[i].text, sourceDirs[d].name) # {}}) > 1
              => \A d \in CleanlyProcessed :
                    \A k \in ImportIndexes(tree[i].text) :
                        tree[i].text.body[k].source # sourceDirs[d].name

----------------------------------------------------------------------------
(* C22 *)

\* the path of a file of the tree matches one of the patterns of options.ignoreTargetFiles
MatchesIgnorePattern(file) ==
    \E i \in 1..Len(ignoreTargetFiles) : isMatch(file, ignoreTargetFiles[i])

\* the steps of the file loop for files that match an ignore pattern
IgnoredSteps == {i \in 1..Len(log) : log[i].kind = "file" /\ MatchesIgnorePattern(log[i].file)}

\* the steps of the file loop in which updateImports was called and returned
ReturnedSteps ==
    {i \in 1..Len(log) :
        log[i].kind = "file" /\ log[i].outcome \in {"updated", "unchanged", "parse",
                                                    "generate", "write"}}

----------------------------------------------------------------------------
(* main of src/src/cli.ts and defaultOptions of src/unnamed/part_000               *)
(* (specification SpecCli)                                                         *)

\* an argument of the command line: an operand, `--ignore-source-files <patterns>`,
\* `--ignore-target-files <patterns>` or `--no-extension`
Operand(value) == [kind |-> "operand", name |-> "", value |-> value]

OptionArg(name, value) == [kind |-> "option", name |-> name, value |-> value]

NoExtensionFlag == [kind |-> "flag", name |-> "extension", value |-> <<>>]

\* the texts an option value is made of: patterns and the comma
OptionValues == { <<>>, <<"**/*.test.ts">>, <<"**/*.test.ts", ",", "**/node_modules/**">> }

\* the arguments of the model
ArgMenu ==
    {Operand(v) : v \in {<<>>, <<"source-package">>, <<"target-dir">>}}
    \cup {OptionArg(n, v) : n \in {"ignoreSourceFiles", "ignoreTargetFiles"}, v \in OptionValues}
    \cup {NoExtensionFlag}

\* number of arguments of a command line that satisfy a test
CountArgs(line, Test(_)) == Cardinality({i \in 1..Len(line) : Test(line[i])})

IsOperand(arg) == arg.kind = "operand"

IsNoExtension(arg) == arg.kind = "flag" /\ arg.name = "extension"

\* the command lines: up to MaxArgs arguments in any order, with the two declared
\* operands at most and each option at most once
CommandLines ==
    {<<>>} \cup
    UNION { {line \in [1..n -> ArgMenu] :
                /\ CountArgs(line, IsOperand) <= 2
                /\ CountArgs(line, IsNoExtension) <= 1
                /\ \A i, j \in 1..n :
                      (line[i].kind = "option" /\ line[j].kind = "option"
                       /\ line[i].name = line[j].name) => i = j}
            : n \in 1..MaxArgs }

\* defaultOptions
defaultOptions ==
    [targetPath |-> <<".">>, ignoreSourceFiles |-> <<>>, ignoreTargetFiles |-> <<>>,
     includeExtension |-> FALSE]

\* program.args: the operands in their order
ProgramArgs(line) ==
    LET v == SelectSeq(line, IsOperand)
    IN IF v = <<>> THEN <<>> ELSE [i \in 1..Len(v) |-> v[i].value]

\* the value commander stores for an option with an argument; set is FALSE when the
\* option is not on the command line (the property is undefined)
OptionValue(line, name) ==
    IF \E i \in 1..Len(line) : line[i].kind = "option" /\ line[i].name = name
    THEN [set |-> TRUE,
          value |-> line[CHOOSE i \in 1..Len(line) :
                            line[i].kind = "option" /\ line[i].name = name].value]
    ELSE [set |-> FALSE, value |-> <<>>]

\* program.opts(): extension is true unless --no-extension is given
ProgramOpts(line) ==
    [ignoreSourceFiles |-> OptionValue(line, "ignoreSourceFiles"),
     ignoreTargetFiles |-> OptionValue(line, "ignoreTargetFiles"),
     extension |-> CountArgs(line, IsNoExtension) = 0]

\* String.prototype.split(','): the pieces between the commas, in order
Split(s) ==
    LET F[i \in 0..Len(s)] ==
          IF i = 0 THEN << <<>> >>
          ELSE IF s[i] = ","
          THEN Append(F[i - 1], <<>>)
          ELSE [F[i - 1] EXCEPT ![Len(F[i - 1])] = Append(@, s[i])]
    IN F[Len(s)]

\* a value is truthy: it is set and not the empty string
Truthy(option) == option.set /\ option.value # <<>>

\* options.ignoreSourceFiles ? options.ignoreSourceFiles.split(',') : defaultOptions...
SplitOrDefault(option, default) ==
    IF Truthy(option) THEN Split(option.value) ELSE default

\* a mapping that falls back to defaultOptions.includeExtension when the flag is absent
IncludeExtensionOption_Default(opts) ==
    IF opts.extension = FALSE THEN FALSE ELSE defaultOptions.includeExtension

\* options.extension !== false ? true : defaultOptions.includeExtension
IncludeExtensionOption(opts) ==
    IF opts.extension # FALSE THEN TRUE ELSE defaultOptions.includeExtension

\* the argument of migrateBarrelImports
MigrationOptions(args, opts) ==
    [sourcePath |-> args[1],
     targetPath |-> IF Len(args) >= 2 /\ args[2] # <<>> THEN args[2]
                    ELSE defaultOptions.targetPath,
     ignoreSourceFiles |-> SplitOrDefault(opts.ignoreSourceFiles,
                                          defaultOptions.ignoreSourceFiles),
     ignoreTargetFiles |-> SplitOrDefault(opts.ignoreTargetFiles,
                                          defaultOptions.ignoreTargetFiles),
     includeExtension |-> IncludeExtensionOption(opts)]

\* !args[0]: no first operand, or an empty one
NoSourcePath(args) == IF Len(args) = 0 THEN TRUE ELSE args[1] = <<>>

\* main has not been called yet
CliStart ==
    [pc |-> "start", args |-> <<>>, opts |-> ProgramOpts(<<>>), exitCode |-> -1,
     calls |-> <<>>]

InitCli ==
    /\ argv \in CommandLines
    /\ cli = CliStart
    /\ NoTree
    /\ NoScan
    /\ modules = <<>>
    /\ packageJsonOk = TRUE
    /\ ignoreSourceFiles = <<>>
    /\ includeExtension = TRUE
    /\ content = NoText
    /\ original = NoText
    /\ atRunStart = NoText
    /\ pc = "idle"
    /\ run = 0
    /\ exports = <<>>
    /\ files = <<>>
    /\ last = NoCall
    /\ stats = NoStats

\* program.parse(process.argv); const args = program.args
ParseArgv ==
    /\ cli.pc = "start"
    /\ cli' = [cli EXCEPT !.pc = "parsed", !.args = ProgramArgs(argv),
                          !.opts = ProgramOpts(argv)]
    /\ UNCHANGED <<argv, treeVars, packageVars, scanVars, ignoreSourceFiles, includeExtension, pc,
                   run, exports, files, stats>>

\* there is no source path (commander rejects a missing <source-path> with the same exit
\* code; an empty one reaches the test of main): process.exit(1)
ExitWithoutSource ==
    /\ cli.pc = "parsed"
    /\ NoSourcePath(cli.args)
    /\ cli' = [cli EXCEPT !.pc = "exited", !.exitCode = 1]
    /\ UNCHANGED <<argv, treeVars, packageVars, scanVars, ignoreSourceFiles, includeExtension, pc,
                   run, exports, files, stats>>

\* await migrateBarrelImports({...}): the call is made
CallMigrate ==
    /\ cli.pc = "parsed"
    /\ ~NoSourcePath(cli.args)
    /\ cli' = [cli EXCEPT !.pc = "migrating",
                          !.calls = Append(@, MigrationOptions(cli.args, cli.opts))]
    /\ UNCHANGED <<argv, treeVars, packageVars, scanVars, ignoreSourceFiles, includeExtension, pc,
                   run, exports, files, stats>>

\* migrateBarrelImports has resolved and main returns
ReturnFromMigrate ==
    /\ cli.pc = "migrating"
    /\ cli' = [cli EXCEPT !.pc = "returned", !.exitCode = 0]
    /\ UNCHANGED <<argv, treeVars, packageVars, scanVars, ignoreSourceFiles, includeExtension, pc,
                   run, exports, files, stats>>

NextCli ==
    \/ ParseArgv
    \/ ExitWithoutSource
    \/ CallMigrate
    \/ ReturnFromMigrate

SpecCli == InitCli /\ [][NextCli]_vars

----------------------------------------------------------------------------
(* C23 *)

\* the positional arguments of the command line, in their order
Positionals ==
    LET F[i \in 0..Len(argv)] ==
          IF i = 0 THEN <<>>
          ELSE IF argv[i].kind = "operand" THEN Append(F[i - 1], argv[i].value)
          ELSE F[i - 1]
    IN F[Len(argv)]

\* the option is on the command line
Given(name) == \E i \in 1..Len(argv) : argv[i].kind \in {"option", "flag"} /\ argv[i].name = name

\* the value the option is given on the command line
GivenValue(name) ==
    argv[CHOOSE i \in 1..Len(argv) : argv[i].kind = "option" /\ argv[i].name = name].value

\* the pieces of an option value between its commas
CommaSplit(value) ==
    LET commas == {i \in 1..Len(value) : value[i] = ","}
        cuts == {0} \cup commas \cup {Len(value) + 1}
        After(c) == CHOOSE d \in cuts : d > c /\ \A e \in cuts : e > c => d <= e
        Piece[c \in cuts] == SubSeq(value, c + 1, After(c) - 1)
        Starts[k \in 0..Cardinality(commas)] ==
            IF k = 0 THEN 0 ELSE After(Starts[k - 1])
    IN [k \in 1..(Cardinality(commas) + 1) |-> Piece[Starts[k - 1]]]

\* main has ended: it returned or the process exited
CliEnded == cli.pc \in {"returned", "exited"}

\* a positional argument or an option value that is present and not the empty string
Present(value) == value # <<>>

\* the first positional argument is missing or empty
WithoutSourcePath == IF Positionals = <<>> THEN TRUE ELSE ~Present(Positionals[1])

\* the second positional argument, '.' when it is missing or empty
TargetPathOrDot ==
    IF Len(Positionals) < 2 THEN <<".">>
    ELSE IF Present(Positionals[2]) THEN Positionals[2] ELSE <<".">>

GivenPresent(name) == IF Given(name) THEN Present(GivenValue(name)) ELSE FALSE

----------------------------------------------------------------------------
(* C24 *)

\* the import declarations of the text from the bare package name, in source order
PackageDeclarations(text) ==
    {i \in ImportIndexes(text) : text.body[i].source = PackageName}

\* the named bindings of the declaration at index i of the text
NamedBindingsAt(text, i) ==
    {b \in Range(text.body[i].specifiers) : b.type = "ImportSpecifier"}

\* C24 (as claimed): when the file holds two or more import declarations from the package
\* name, every binding of every one of them that the catalog resolves to a module is
\* imported from that module's direct path after the rewrite, whether or not the first
\* declaration held a resolvable binding.
C24_EveryDeclarationPlanned ==
    (Updated /\ run = 1 /\ Cardinality(PackageDeclarations(original)) >= 2) =>
        \A i \in PackageDeclarations(original) :
            \A b \in NamedBindingsAt(original, i) :
                ResolvesToModule(b.imported)
                => SpecifiersOf(content, b) = {ResolvedSpecifier(b.imported)}

----------------------------------------------------------------------------
(* C25 *)

\* the places (declaration, position) at which the text imports specifier b: same kind,
\* same local name, same imported name
PlacesOf(text, b) ==
    {p \in UNION {{<<i, k>> : k \in 1..Len(text.body[i].specifiers)} : i \in ImportIndexes(text)} :
        text.body[p[1]].specifiers[p[2]] = b}

\* the specifiers of the import declarations of the text that qualify for the package
QualifyingSpecifiers(text) ==
    UNION {Range(text.body[i].specifiers) : i \in QualifyingImports(text, PackageName)}

\* C25 (as claimed): in every file updateImports has rewritten, each specifier of each
\* original import declaration that qualifies for the package (named binding with its
\* local alias and imported name, default specifier, namespace specifier) occurs exactly
\* once among the import declarations of the output; none is dropped, duplicated or renamed.
C25_BindingsPreserved ==
    (Updated /\ last.written) =>
        \A b \in QualifyingSpecifiers(last.before) :
            Cardinality(PlacesOf(content, b)) = 1

----------------------------------------------------------------------------
(* C26 *)

\* module m re-exports name n from a relative specifier: export { n } from "./x", or
\* export * from "./x" (which re-exports every name of ./x)
ReExportsFromRelative(m, n) ==
    /\ m.parses
    /\ \E i \in 1..Len(m.body) :
          /\ m.body[i].source # NoSource
          /\ StartsWithDot(m.body[i].source)
          /\ \/ m.body[i].type = "ExportAllDeclaration"
             \/ /\ m.body[i].type = "ExportNamedDeclaration"
                /\ Contains(SpecifierNames(m.body[i].specifiers), n)

\* module m only re-exports n: from a relative specifier, and it neither declares n nor
\* exports an entity of that name as its default, nor re-exports n from an external package
OnlyReExports(m, n) ==
    /\ ReExportsFromRelative(m, n)
    /\ ~DirectlyDeclares(m, n)
    /\ ~DefaultExports(m, n)
    /\ \A i \in 1..Len(m.body) : ~ReExportsFromExternal(m, n, m.body[i].source)

\* the names the catalog lists for file
CatalogNames(file) ==
    UNION {Range(exports[i].exports) : i \in {j \in 1..Len(exports) : exports[j].source = file}}

\* C26: a module that only re-exports name N from a relative specifier is not in the
\* catalog as a module of N, and after the rewrite of the consumer file no binding of N is
\* imported from the path of such a module.
C26_ReExportsNotCandidates ==
    \A m \in ModuleSet :
        /\ \A n \in CatalogNames(m.file) : ~OnlyReExports(m, n)
        /\ Updated =>
              \A b \in PackageBindings(original) :
                  OnlyReExports(m, b.imported)
                  => ~ImportsBindingFrom(content, b, TargetSpecifier(m.file))

----------------------------------------------------------------------------
(* C27 *)

\* the source packages found: the selected directories that hold a package.json, in order
PackagesFound == FindPackageJsonPaths(sourceDirs)

\* the directories of a sequence of packages or of steps
DirsOf(s) == [i \in 1..Len(s) |-> s[i].dir]

\* a step of the package loop that begins the turn of a package: its getPackageInfo threw,
\* or it was scanned
IsAttempt(entry) == entry.kind = "package" /\ entry.outcome \in {"skipped", "scanned"}

\* the directories of the packages the package loop has begun, in the order of the steps
Attempted == DirsOf(SelectSeq(log, IsAttempt))

\* the directories of the packages whose turn has not begun
NotYetAttempted ==
    IF pc = "files" THEN DirsOf(Tail(packageJsonPaths)) ELSE DirsOf(packageJsonPaths)

\* the packages begun so far and those still to come are the packages found, each once and
\* in order; at the summary every package is counted as processed or as skipped
AttemptedOnceInOrder ==
    pc # "idle" =>
        /\ Attempted \o NotYetAttempted = DirsOf(PackagesFound)
        /\ pc = "done" =>
              /\ Attempted = DirsOf(PackagesFound)
              /\ stats.packagesProcessed + stats.packagesSkipped = Len(PackagesFound)

\* C27: whatever fails for a package (its package.json cannot be read) or for a file
\* (reading, parsing, generating, writing), the run begins the turn of every package root
\* with a package.json exactly once and in order, it reaches the summary, and at the
\* summary packagesProcessed + packagesSkipped is the number of source packages found.
C27_RunCompletes == [](AttemptedOnceInOrder) /\ <>(pc = "done")

\* the summary of a run over two packages found, in which the first package was skipped
\* and, in the turn of the second, a file failed before the package was counted as processed
C27_Witness ==
    /\ pc = "done"
    /\ Len(PackagesFound) = 2
    /\ stats.packagesSkipped = 1
    /\ stats.packagesProcessed = 1
    /\ stats.errors >= 1
    /\ \E i, j, k \in 1..Len(log) :
          /\ i < j /\ j < k
          /\ log[i].kind = "package" /\ log[i].outcome = "skipped"
          /\ j \in FailedSteps
          /\ log[k].kind = "package" /\ log[k].outcome = "processed"

----------------------------------------------------------------------------
(* C28 *)

\* the steps of the file loop that threw into the catch of the file loop of
\* migrateBarrelImports: a readFileSync of the file failed
ThrownSteps == {i \in 1..Len(log) : log[i].kind = "file" /\ log[i].outcome = "read"}

\* the steps of the file loop that ended at the `continue` of the ignore test
SkippedSteps == {i \in 1..Len(log) : log[i].kind = "file" /\ log[i].outcome = "ignored"}

\* the files handled so far, as the counters tell it
Handled == stats.filesProcessed + stats.filesSkipped + Cardinality(ThrownSteps)

\* the number of files findImports located for the package whose file loop is running
LocatedForCurrent == Len(files) + Cardinality(FileSteps(Head(packageJsonPaths).dir))

----------------------------------------------------------------------------
(* C29 *)

\* the catalog findExports builds for a package from the texts the tree holds
CatalogOf(sourceDir, targetTree) ==
    findExports(PackageModules(sourceDir, targetTree), ignoreSourceFiles)

\* the names the export statements of a text list, as findExports reads them
ExportedNames(file, text) ==
    LET entries == ScanModule([file |-> file, parses |-> ~ParseThrows(text),
                               body |-> text.body], <<>>)
    IN UNION {Range(entries[i].exports) : i \in 1..Len(entries)}

\* the steps of the file loop that rewrote a file lying inside a source package
NestedRewrites ==
    {i \in 1..Len(log) :
        /\ log[i].kind = "file" /\ log[i].outcome = "updated"
        /\ \E d \in 1..Len(sourceDirs) : IsInside(sourceDirs[d].dir, log[i].file)}

\* C29: the catalog in use during the file loop of a package stays the one findExports
\* built, whatever updateImports is called on; no rewrite of a file, files inside a source
\* package included, changes the exported names of that file; so the catalog of every
\* package, built from the tree as it is now, is the catalog built from the tree as the
\* run found it.
C29_CatalogStable ==
    /\ pc = "files" => exports = CatalogOf(Head(packageJsonPaths), treeAtStart)
    /\ \A i \in 1..Len(tree) :
          ExportedNames(tree[i].file, tree[i].text)
              = ExportedNames(treeAtStart[i].file, treeAtStart[i].text)
    /\ \A d \in 1..Len(sourceDirs) :
          CatalogOf(sourceDirs[d], tree) = CatalogOf(sourceDirs[d], treeAtStart)

\* a file inside the second package that exports names was rewritten in the turn of the
\* first package, and the second package was scanned afterwards: its catalog lists the file
C29_Witness ==
    /\ pc = "files"
    /\ Len(log) >= 3
    /\ \E i \in NestedRewrites :
          /\ log[i].dir # Head(packageJsonPaths).dir
          /\ IsInside(Head(packageJsonPaths).dir, log[i].file)
          /\ \E k \in 1..Len(exports) :
                exports[k].source = RelativeTo(Head(packageJsonPaths).dir, log[i].file)

----------------------------------------------------------------------------
(* C30 *)

\* the paths of a sequence of modules
FilesOf(s) == [i \in 1..Len(s) |-> s[i].file]

\* module m re-exports from module m2 of the package
ReExportsModule(m, m2) == \E src \in ReExportSources(m) : IsNamedBy(m2, src)

\* two barrels of the package re-export each other
HasCycle ==
    \E m, m2 \in ModuleSet : m # m2 /\ ReExportsModule(m, m2) /\ ReExportsModule(m2, m)

\* the loop of findExports has visited each enumerated module at most once and in order,
\* all of them when it has ended, and the catalog then is the one of the flat scan; an
\* entry lists only names its own module lists; a binding of a name that a module
\* directly declares is imported from that module after the rewrite
FlatScan ==
    /\ pc = "scan" => scanned \o FilesOf(toScan) = FilesOf(modules)
    /\ pc = "files" =>
          /\ scanned = FilesOf(modules)
          /\ exports = findExports(modules, ignoreSourceFiles)
    /\ pc \in {"scan", "files"} =>
          \A k \in 1..Len(exports) :
              \E m \in ModuleSet :
                  /\ m.file = exports[k].source
                  /\ \A n \in Range(exports[k].exports) : ListsName(m, n)
    /\ Updated =>
          \A b \in PackageBindings(original) :
              \A m \in ModuleSet :
                  DirectlyDeclares(m, b.imported)
                  => ImportsBindingFrom(content, b, TargetSpecifier(m.file))

====
